---- MODULE Spec2Model ----
(***************************************************************************)
(* A model of NetworkMonitor::TransportNetwork (transport-network.cpp):    *)
(* the station graph, its lines and routes, the travel times, and the      *)
(* fastest-route search over (station, arriving edge) pairs.               *)
(***************************************************************************)
EXTENDS Integers, Sequences, FiniteSets, TLC

\* ------------------------------------------------------------------ bounds

\* The largest travel time a caller passes to SetTravelTime.
MaxTime == 7

\* AddLine is called only while the graph holds fewer edges than this.
MaxEdges == 2

\* Passenger events are recorded while they keep every count within
\* -MaxCount .. MaxCount.
MaxCount == 1

\* Passenger events are recorded while fewer than MaxEvents of them have
\* changed a count.
MaxEvents == 4

\* ------------------------------------------------------------- input sets

StationIds == {"A", "B", "C"}
StationNames == {"Alpha", "Beta"}

\* A Station as the caller passes it (transport-network.h, struct Station).
Station(id, name) == [id |-> id, name |-> name]
LineIds == {"L1", "L2"}
TimeValues == {0, MaxTime}

\* A Route as the caller passes it (transport-network.h, struct Route): its id
\* and its stops. direction, lineId, startStationId and endStationId are not
\* read by the code.
Rt(id, stops) == [id |-> id, stops |-> stops]

\* The route lists of the lines the callers try to add: well-formed ones (one
\* route, two routes in opposite directions, two routes that meet at C), and
\* ill-formed ones the code still accepts as input (a route id used twice, a
\* stop repeated at once).
RouteLists ==
    { <<Rt("R1", <<"A", "B">>)>>,
      <<Rt("R1", <<"B", "A">>)>>,
      <<Rt("R1", <<"A", "C", "B">>)>>,
      <<Rt("R1", <<"C", "B">>)>>,
      <<Rt("R1", <<"A", "B">>), Rt("R2", <<"B", "A">>)>>,
      <<Rt("R1", <<"A", "C">>), Rt("R2", <<"C", "B">>)>>,
      <<Rt("R1", <<"A", "B">>), Rt("R1", <<"B", "A">>)>>,
      <<Rt("R1", <<"A", "A">>)>> }

\* A Line as the caller passes it (struct Line): id and routes.
LineInputs == { [id |-> l, routes |-> rs] : l \in LineIds, rs \in RouteLists }

\* More lines the code accepts as input: a route that comes back to a stop it
\* has left, and a route of one stop.
StoreRouteLists ==
    RouteLists \cup { <<Rt("R1", <<"A", "B", "A", "C">>)>>,
                      <<Rt("R1", <<"A">>)>> }

StoreLineInputs ==
    { [id |-> l, routes |-> rs] : l \in LineIds, rs \in StoreRouteLists }

\* The JSON objects the callers pass to FromJson, by their three sections: the
\* stations, the lines, and the travel times, which may be absent.
JsonStations ==
    { << >>,
      <<Station("A", "Alpha"), Station("B", "Beta")>>,
      <<Station("A", "Alpha"), Station("B", "Beta"), Station("C", "Alpha")>>,
      <<Station("A", "Alpha"), Station("A", "Beta")>> }

JsonLines ==
    { << >>,
      <<[id |-> "L1", routes |-> <<Rt("R1", <<"A", "B">>)>>]>>,
      <<[id |-> "L1", routes |-> <<Rt("R1", <<"A", "C", "B">>)>>]>>,
      <<[id |-> "L1", routes |-> <<Rt("R1", <<"A", "B">>)>>],
        [id |-> "L2", routes |-> <<Rt("R1", <<"B", "A">>)>>]>>,
      <<[id |-> "L1", routes |-> <<Rt("R1", <<"A", "B">>)>>],
        [id |-> "L1", routes |-> <<Rt("R1", <<"B", "A">>)>>]>> }

TravelTimeJson(a, b, t) ==
    [start_station_id |-> a, end_station_id |-> b, travel_time |-> t]

JsonTravelTimes ==
    { << >>,
      <<TravelTimeJson("A", "B", MaxTime)>>,
      <<TravelTimeJson("A", "B", MaxTime), TravelTimeJson("A", "C", MaxTime)>>,
      <<TravelTimeJson("A", "C", MaxTime), TravelTimeJson("A", "B", MaxTime)>>,
      <<TravelTimeJson("B", "C", MaxTime)>> }

JsonInputs ==
    { [stations |-> st, lines |-> ls] : st \in JsonStations, ls \in JsonLines }
    \cup { [stations |-> st, lines |-> ls, travel_times |-> tt] :
             st \in JsonStations, ls \in JsonLines, tt \in JsonTravelTimes }

\* PassengerEvent::Type: In, Out, and a value outside the enumeration (the
\* default branch of the switch in RecordPassengerEvent).
EventTypes == {"In", "Out", "Other"}

\* The null shared_ptr<GraphEdge> of a PathStop.
NoEdge == <<>>

\* ------------------------------------------------------------------ state

VARIABLES
    stations_,      \* station id -> GraphNode (name, passengerCount, edges)
    lines_,         \* line id -> (route id -> RouteInternal) for the registered lines
    ret,            \* the last public call and what it returned
    pc,             \* position of the running GetFastestTravelRoute call
    stationA,       \* its first argument
    stationB,       \* its second argument
    distFromA,      \* its distFromA map
    previousStop,   \* its previousStop map
    nodesToVisit,   \* its priority queue, as the set of (PathStop, distance) pairs
    result,         \* the TravelRoute it returned
    events          \* per station, how many In and Out events were recorded

\* The state of the timers: the singleton TimerMeasurements, the Timer
\* objects alive, the clock, and what the calls so far have been.
VARIABLES
    measurements,   \* timer name -> sequence of TimerMeasurement
    order,          \* the names, in the order of their first timer
    instances,      \* handle of a live Timer object -> its name_ and id_
    now,            \* the reading of high_resolution_clock
    terminated,     \* std::terminate has been called
    made,           \* timer name -> the timers constructed since ClearAll
    stopped         \* the timers stopped, by Stop() or by their destructor

timerVars == <<measurements, order, instances, now, terminated, made, stopped>>

\* The state of the mock WebSocket client and of the mock STOMP server
\* behind it, and what the calls so far have been.
VARIABLES
    connected_,             \* MockWebSocketClient::connected_
    closed_,                \* MockWebSocketClient::closed_
    triggerDisconnection,   \* the static flag
    messageQueue,           \* the static queue of the frames to deliver
    connectEc,              \* the static error code of Connect, "" for none
    strand,                 \* the handlers posted to context_, oldest first
    pushed,                 \* every frame pushed to messageQueue so far
    delivered,              \* every frame handed to onMessage so far
    calls                   \* how many calls the user has made

mockVars == <<connected_, closed_, triggerDisconnection, messageQueue,
              connectEc, strand, pushed, delivered, calls>>

netVars == <<stations_, lines_, pc, stationA, stationB, distFromA,
             previousStop, nodesToVisit, result, events>>

vars == <<stations_, lines_, ret, pc, stationA, stationB, distFromA,
          previousStop, nodesToVisit, result, events, measurements, order,
          instances, now, terminated, made, stopped, connected_, closed_,
          triggerDisconnection, messageQueue, connectEc, strand, pushed,
          delivered, calls>>

\* ---------------------------------------------------------------- helpers

RECURSIVE SumSeq(_)
SumSeq(s) == IF s = <<>> THEN 0 ELSE Head(s) + SumSeq(Tail(s))

RECURSIVE SumLens(_, _)
SumLens(f, S) ==
    IF S = {} THEN 0
    ELSE LET x == CHOOSE y \in S : TRUE
         IN Len(f[x].edges) + SumLens(f, S \ {x})

Max(S) == CHOOSE x \in S : \A y \in S : y <= x

\* std::unordered_map::find / GetStation, GetLine: nullptr is "not in DOMAIN".
GetStation(nodes, stationId) == stationId \in DOMAIN nodes

GetLine(lines, lineId) == lineId \in DOMAIN lines

\* Every GraphEdge of the graph, named by the station that holds it and its
\* position in that station's edges vector (edges are never removed).
EdgeRefsOf(nodes) ==
    UNION { { <<s, i>> : i \in DOMAIN nodes[s].edges } : s \in DOMAIN nodes }

EdgeRefs == EdgeRefsOf(stations_)

EdgeAt(ref) == stations_[ref[1]].edges[ref[2]]

NumEdges == SumLens(stations_, DOMAIN stations_)

\* The RouteInternal objects are told apart by address; uid stands for it. A
\* new object gets an address that no edge and no route reachable from the
\* network or from the line under construction holds.
LiveUids(nodes, lines, lineRoutes) ==
    { nodes[r[1]].edges[r[2]].route.uid : r \in EdgeRefsOf(nodes) }
    \cup { lines[l][r].uid : <<l, r>> \in
             UNION { { <<l2, r2>> : r2 \in DOMAIN lines[l2] } : l2 \in DOMAIN lines } }
    \cup { lineRoutes[r].uid : r \in DOMAIN lineRoutes }

NewUid(nodes, lines, lineRoutes) ==
    Max(LiveUids(nodes, lines, lineRoutes) \cup {0}) + 1

\* ------------------------------------------------------------- AddStation

\* AddStationOn without the test for a station that is already in the
\* network: the new node takes the place of the old one.
AddStationOverwrites(nodes, station) ==
    [ok |-> TRUE,
     nodes |-> (station.id :> [name |-> station.name,
                               passengerCount |-> 0,
                               edges |-> <<>>]) @@ nodes]

\* AddStation on a given stations_ map: what it returns and the map it leaves.
AddStationOn(nodes, station) ==
    IF GetStation(nodes, station.id)
    THEN [ok |-> FALSE, nodes |-> nodes]
    ELSE [ok |-> TRUE,
          nodes |-> nodes @@ (station.id :> [name |-> station.name,
                                             passengerCount |-> 0,
                                             edges |-> <<>>])]

AddStationOk(station) == AddStationOn(stations_, station).ok

AddStation(station) ==
    /\ pc = "idle"
    /\ stations_' = AddStationOn(stations_, station).nodes
    /\ ret' = [op |-> "AddStation", ok |-> AddStationOk(station)]
    /\ UNCHANGED timerVars
    /\ UNCHANGED mockVars
    /\ UNCHANGED <<lines_, pc, stationA, stationB, distFromA, previousStop,
                   nodesToVisit, result, events>>

\* --------------------------------------------------- RecordPassengerEvent

\* RecordPassengerEventResult whose Out branch counts up like the In branch.
RecordPassengerEventOutAdds(stationId, type) ==
    IF ~GetStation(stations_, stationId)
    THEN [ok |-> FALSE, nodes |-> stations_]
    ELSE IF type = "In" \/ type = "Out"
    THEN [ok |-> TRUE,
          nodes |-> [stations_ EXCEPT ![stationId].passengerCount = @ + 1]]
    ELSE [ok |-> FALSE, nodes |-> stations_]

RecordPassengerEventResult(stationId, type) ==
    IF ~GetStation(stations_, stationId)
    THEN [ok |-> FALSE, nodes |-> stations_]
    ELSE IF type = "In"
    THEN [ok |-> TRUE,
          nodes |-> [stations_ EXCEPT ![stationId].passengerCount = @ + 1]]
    ELSE IF type = "Out"
    THEN [ok |-> TRUE,
          nodes |-> [stations_ EXCEPT ![stationId].passengerCount = @ - 1]]
    ELSE [ok |-> FALSE, nodes |-> stations_]

\* The number of events that have changed a count so far.
RECURSIVE SumEvents(_, _)
SumEvents(ev, S) ==
    IF S = {} THEN 0
    ELSE LET x == CHOOSE y \in S : TRUE
         IN ev[x].nIn + ev[x].nOut + SumEvents(ev, S \ {x})

NumEvents == SumEvents(events, DOMAIN events)

RecordPassengerEvent(stationId, type) ==
    /\ pc = "idle"
    /\ LET r == RecordPassengerEventResult(stationId, type)
       IN /\ \A s \in DOMAIN r.nodes :
                /\ r.nodes[s].passengerCount <= MaxCount
                /\ r.nodes[s].passengerCount >= -MaxCount
          /\ r.ok => NumEvents < MaxEvents
          /\ stations_' = r.nodes
          /\ ret' = [op |-> "RecordPassengerEvent", ok |-> r.ok]
          /\ events' =
                IF ~r.ok THEN events
                ELSE IF type = "In"
                THEN [events EXCEPT ![stationId].nIn = @ + 1]
                ELSE [events EXCEPT ![stationId].nOut = @ + 1]
    /\ UNCHANGED timerVars
    /\ UNCHANGED mockVars
    /\ UNCHANGED <<lines_, pc, stationA, stationB, distFromA, previousStop,
                   nodesToVisit, result>>

\* ------------------------------------------------------ GetPassengerCount

\* GetPassengerCount with the test for an unknown station left out: it
\* answers 0 for a station that is not in the network.
GetPassengerCountNoThrow(station) ==
    IF ~GetStation(stations_, station)
    THEN [thrown |-> FALSE, value |-> 0]
    ELSE [thrown |-> FALSE, value |-> stations_[station].passengerCount]

\* GetPassengerCount(station): it throws std::runtime_error for a station that
\* is not in the network, and returns the count of the station otherwise.
GetPassengerCount(station) ==
    IF ~GetStation(stations_, station)
    THEN [thrown |-> TRUE, value |-> 0]
    ELSE [thrown |-> FALSE, value |-> stations_[station].passengerCount]

\* ---------------------------------------------------------------- AddLine

\* AddEdges that stops after the first pair of stops.
AddEdgesFirstHopOnly(nodes, routeRef, stops, idx) ==
    IF idx >= Len(stops) THEN nodes
    ELSE [nodes EXCEPT ![stops[idx]].edges =
            Append(@, [route |-> routeRef, nextStop |-> stops[idx + 1],
                       travelTime |-> 0])]

\* The loop of AddRouteToLine that walks the stops of the new route and
\* appends one GraphEdge, of travel time 0, to every stop but the last.
RECURSIVE AddEdges(_, _, _, _)
AddEdges(nodes, routeRef, stops, idx) ==
    IF idx >= Len(stops) THEN nodes
    ELSE LET thisStop == stops[idx]
             nextStop == stops[idx + 1]
             edge == [route |-> routeRef, nextStop |-> nextStop, travelTime |-> 0]
         IN AddEdges([nodes EXCEPT ![thisStop].edges = Append(@, edge)],
                     routeRef, stops, idx + 1)

\* AddRouteToLine without the test for a route id that the line under
\* construction already has: the later route takes the place of the earlier.
AddRouteToLineNoDuplicateTest(route, lineId, lines, st) ==
    IF \E i \in DOMAIN route.stops : ~GetStation(st.nodes, route.stops[i])
    THEN [st EXCEPT !.ok = FALSE]
    ELSE LET routeRef == [uid |-> NewUid(st.nodes, lines, st.routes),
                          id |-> route.id, line |-> lineId]
             routeInternal == [uid |-> routeRef.uid, id |-> route.id,
                               line |-> lineId, stops |-> route.stops]
         IN [ok |-> TRUE,
             nodes |-> AddEdges(st.nodes, routeRef, route.stops, 1),
             routes |-> (route.id :> routeInternal) @@ st.routes]

\* AddRouteToLine on the nodes and on the routes of the line under
\* construction. The stops of the callers' routes are never empty.
AddRouteToLine(route, lineId, lines, st) ==
    IF route.id \in DOMAIN st.routes
    THEN [st EXCEPT !.ok = FALSE]
    ELSE IF \E i \in DOMAIN route.stops : ~GetStation(st.nodes, route.stops[i])
    THEN [st EXCEPT !.ok = FALSE]
    ELSE LET routeRef == [uid |-> NewUid(st.nodes, lines, st.routes),
                          id |-> route.id, line |-> lineId]
             routeInternal == [uid |-> routeRef.uid, id |-> route.id,
                               line |-> lineId, stops |-> route.stops]
         IN [ok |-> TRUE,
             nodes |-> AddEdges(st.nodes, routeRef, route.stops, 1),
             routes |-> (route.id :> routeInternal) @@ st.routes]

\* The loop of AddLine over line.routes: it stops at the first route that
\* AddRouteToLine rejects and keeps what the earlier routes did to the nodes.
RECURSIVE AddRoutes(_, _, _, _)
AddRoutes(routes, lineId, lines, st) ==
    IF routes = <<>> THEN st
    ELSE LET next == AddRouteToLine(Head(routes), lineId, lines, st)
         IN IF ~next.ok THEN next
            ELSE AddRoutes(Tail(routes), lineId, lines, next)

\* AddLine(line) on given stations_ and lines_ maps: what it returns and the
\* maps it leaves behind.
AddLineOn(nodes, lines, line) ==
    IF GetLine(lines, line.id)
    THEN [ok |-> FALSE, nodes |-> nodes, lines |-> lines]
    ELSE LET emptyRoutes == [r \in {} |-> 0]
             st == AddRoutes(line.routes, line.id, lines,
                     [ok |-> TRUE, nodes |-> nodes, routes |-> emptyRoutes])
         IN IF ~st.ok
            THEN [ok |-> FALSE, nodes |-> st.nodes, lines |-> lines]
            ELSE [ok |-> TRUE, nodes |-> st.nodes,
                  lines |-> lines @@ (line.id :> st.routes)]

AddLineResult(line) == AddLineOn(stations_, lines_, line)

AddLine(line) ==
    /\ pc = "idle"
    /\ NumEdges < MaxEdges
    /\ LET r == AddLineResult(line)
       IN /\ stations_' = r.nodes
          /\ lines_' = r.lines
          /\ ret' = [op |-> "AddLine", ok |-> r.ok]
    /\ UNCHANGED timerVars
    /\ UNCHANGED mockVars
    /\ UNCHANGED <<pc, stationA, stationB, distFromA, previousStop,
                   nodesToVisit, result, events>>

\* ---------------------------------------------------------- SetTravelTime

\* SetEdges without the test of nextStop: every edge of `from` gets the
\* travel time.
SetEdgesOfAnyStop(nodes, from, to, travelTime) ==
    [nodes EXCEPT ![from].edges =
        [i \in DOMAIN @ |-> [@[i] EXCEPT !.travelTime = travelTime]]]

\* The lambda of SetTravelTime: every edge of `from` whose nextStop is `to`
\* gets the travel time.
SetEdges(nodes, from, to, travelTime) ==
    [nodes EXCEPT ![from].edges =
        [i \in DOMAIN @ |->
            IF @[i].nextStop = to THEN [@[i] EXCEPT !.travelTime = travelTime]
            ELSE @[i]]]

FoundAnyEdge(nodes, a, b) ==
    \/ \E i \in DOMAIN nodes[a].edges : nodes[a].edges[i].nextStop = b
    \/ \E i \in DOMAIN nodes[b].edges : nodes[b].edges[i].nextStop = a

\* SetTravelTimeOn with the second call of the lambda (B -> A) left out.
SetTravelTimeOneWay(nodes, a, b, travelTime) ==
    IF ~GetStation(nodes, a) \/ ~GetStation(nodes, b)
    THEN [ok |-> FALSE, nodes |-> nodes]
    ELSE [ok |-> FoundAnyEdge(nodes, a, b),
          nodes |-> SetEdges(nodes, a, b, travelTime)]

\* SetTravelTime on a given stations_ map: what it returns and the map it
\* leaves.
SetTravelTimeOn(nodes, a, b, travelTime) ==
    IF ~GetStation(nodes, a) \/ ~GetStation(nodes, b)
    THEN [ok |-> FALSE, nodes |-> nodes]
    ELSE [ok |-> FoundAnyEdge(nodes, a, b),
          nodes |-> SetEdges(SetEdges(nodes, a, b, travelTime),
                             b, a, travelTime)]

SetTravelTimeResult(a, b, travelTime) ==
    SetTravelTimeOn(stations_, a, b, travelTime)

SetTravelTime(a, b, travelTime) ==
    /\ pc = "idle"
    /\ LET r == SetTravelTimeResult(a, b, travelTime)
       IN /\ stations_' = r.nodes
          /\ ret' = [op |-> "SetTravelTime", ok |-> r.ok]
    /\ UNCHANGED timerVars
    /\ UNCHANGED mockVars
    /\ UNCHANGED <<lines_, pc, stationA, stationB, distFromA, previousStop,
                   nodesToVisit, result, events>>

\* ---------------------------------------------------------- GetTravelTime

\* First index of a sequence that satisfies a test, 0 when none does.
FirstEdgeTo(from, to) ==
    LET hits == { i \in DOMAIN stations_[from].edges :
                    stations_[from].edges[i].nextStop = to }
    IN IF hits = {} THEN 0 ELSE CHOOSE i \in hits : \A j \in hits : i <= j

\* GetTravelTime(stationA, stationB): the first edge A -> B, else the first
\* edge B -> A, else 0.
GetTravelTime(a, b) ==
    IF ~GetStation(stations_, a) \/ ~GetStation(stations_, b) THEN 0
    ELSE IF FirstEdgeTo(a, b) # 0
    THEN stations_[a].edges[FirstEdgeTo(a, b)].travelTime
    ELSE IF FirstEdgeTo(b, a) # 0
    THEN stations_[b].edges[FirstEdgeTo(b, a)].travelTime
    ELSE 0

\* --------------------------------------------------------------- FromJson

\* The first loop of FromJson: AddStation for every station of the section,
\* up to the first one that AddStation rejects.
RECURSIVE LoadStations(_, _)
LoadStations(stationsJson, nodes) ==
    IF stationsJson = << >> THEN [ok |-> TRUE, nodes |-> nodes]
    ELSE LET r == AddStationOn(nodes, Head(stationsJson))
         IN IF ~r.ok THEN r
            ELSE LoadStations(Tail(stationsJson), r.nodes)

\* The second loop: AddLine for every line, up to the first one it rejects.
RECURSIVE LoadLines(_, _, _)
LoadLines(linesJson, nodes, lines) ==
    IF linesJson = << >> THEN [ok |-> TRUE, nodes |-> nodes, lines |-> lines]
    ELSE LET r == AddLineOn(nodes, lines, Head(linesJson))
         IN IF ~r.ok THEN r
            ELSE LoadLines(Tail(linesJson), r.nodes, r.lines)

\* LoadTravelTimes that leaves the loop at the first entry that SetTravelTime
\* rejects.
RECURSIVE LoadTravelTimesUntilFailure(_, _, _)
LoadTravelTimesUntilFailure(travelTimesJson, nodes, ok) ==
    IF travelTimesJson = << >> THEN [ok |-> ok, nodes |-> nodes]
    ELSE LET tt == Head(travelTimesJson)
             r == SetTravelTimeOn(nodes, tt.start_station_id,
                                  tt.end_station_id, tt.travel_time)
         IN IF ~r.ok THEN [ok |-> FALSE, nodes |-> r.nodes]
            ELSE LoadTravelTimesUntilFailure(Tail(travelTimesJson), r.nodes, ok)

\* The third loop: SetTravelTime for every entry, ok &= its result.
RECURSIVE LoadTravelTimes(_, _, _)
LoadTravelTimes(travelTimesJson, nodes, ok) ==
    IF travelTimesJson = << >> THEN [ok |-> ok, nodes |-> nodes]
    ELSE LET tt == Head(travelTimesJson)
             r == SetTravelTimeOn(nodes, tt.start_station_id,
                                  tt.end_station_id, tt.travel_time)
         IN LoadTravelTimes(Tail(travelTimesJson), r.nodes, ok /\ r.ok)

\* What FromJson(src) throws or returns, and the maps it leaves behind. The
\* stations and lines added before a throw stay in the network. at() of a
\* key that the object does not have throws nlohmann::json::out_of_range.
FromJsonResult(src) ==
    LET s == LoadStations(src.stations, stations_)
        l == LoadLines(src.lines, s.nodes, lines_)
    IN IF ~s.ok
       THEN [thrown |-> "runtime_error", ok |-> FALSE,
             nodes |-> s.nodes, lines |-> lines_]
       ELSE IF ~l.ok
       THEN [thrown |-> "runtime_error", ok |-> FALSE,
             nodes |-> l.nodes, lines |-> l.lines]
       ELSE IF "travel_times" \notin DOMAIN src
       THEN [thrown |-> "json_exception", ok |-> FALSE,
             nodes |-> l.nodes, lines |-> l.lines]
       ELSE LET t == LoadTravelTimes(src.travel_times, l.nodes, TRUE)
            IN [thrown |-> "none", ok |-> t.ok,
                nodes |-> t.nodes, lines |-> l.lines]

\* FromJson(src): ret.ok is the returned value when nothing is thrown, and
\* ret.src is the object that was passed.
FromJson(src) ==
    /\ pc = "idle"
    /\ LET r == FromJsonResult(src)
       IN /\ stations_' = r.nodes
          /\ lines_' = r.lines
          /\ ret' = [op |-> "FromJson", ok |-> r.ok, thrown |-> r.thrown,
                     src |-> src]
    /\ UNCHANGED timerVars
    /\ UNCHANGED mockVars
    /\ UNCHANGED <<pc, stationA, stationB, distFromA, previousStop,
                   nodesToVisit, result, events>>

\* ------------------------------------------------ GetRoutesServingStation

\* The (line id, route id) pairs of the registered routes: what the two
\* nested loops over lines_ and line->routes visit.
RegisteredRoutes ==
    UNION { { <<l, r>> : r \in DOMAIN lines_[l] } : l \in DOMAIN lines_ }

\* The registered routes whose last stop is the station.
RoutesEndingAt(station) ==
    { p \in RegisteredRoutes :
        LET stops == lines_[p[1]][p[2]].stops
        IN stops[Len(stops)] = station }

\* How many times GetRoutesServingStation(station) pushes the route id: once
\* for every edge of the station that belongs to a route of that id, and
\* once for every registered route of that id that ends at the station.
PushesOf(station, routeId) ==
    Cardinality({ i \in DOMAIN stations_[station].edges :
                    stations_[station].edges[i].route.id = routeId })
    + Cardinality({ p \in RoutesEndingAt(station) : p[2] = routeId })

\* GetRoutesServingStation(station), as the bag of the ids of the returned
\* vector (the order of the second loop is the order of an unordered_map):
\* the empty bag for a station that is not in the network.
GetRoutesServingStation(station) ==
    IF ~GetStation(stations_, station) THEN [r \in {} |-> 0]
    ELSE LET ids == { stations_[station].edges[i].route.id :
                        i \in DOMAIN stations_[station].edges }
                    \cup { p[2] : p \in RoutesEndingAt(station) }
         IN [r \in ids |-> PushesOf(station, r)]

\* ------------------------------------------- GetTravelTime (on one route)

\* GetRoute(lineId, routeId) finds a route: HasRoute is "not nullptr".
HasRoute(lineId, routeId) ==
    /\ GetLine(lines_, lineId)
    /\ routeId \in DOMAIN lines_[lineId]

GetRoute(lineId, routeId) == lines_[lineId][routeId]

\* GraphNode::FindEdgeForRoute: the position of the first edge of the station
\* that belongs to the route object, 0 for edges.end().
FindEdgeForRoute(station, route) ==
    LET hits == { i \in DOMAIN stations_[station].edges :
                    stations_[station].edges[i].route.uid = route.uid }
    IN IF hits = {} THEN 0 ELSE CHOOSE i \in hits : \A j \in hits : i <= j

\* WalkRoute that counts from the first stop of the route on, whether
\* station A has been found or not.
RECURSIVE WalkRouteFromFirstStop(_, _, _, _, _, _)
WalkRouteFromFirstStop(route, a, b, idx, travelTime, foundA) ==
    IF idx > Len(route.stops) THEN 0
    ELSE LET stop == route.stops[idx]
         IN IF stop = b THEN travelTime
            ELSE LET edgeIt == FindEdgeForRoute(stop, route)
                 IN IF edgeIt = 0 THEN 0
                    ELSE WalkRouteFromFirstStop(route, a, b, idx + 1,
                            travelTime + stations_[stop].edges[edgeIt].travelTime,
                            TRUE)

\* The loop of GetTravelTime(line, route, stationA, stationB) from the stop at
\* idx on, with the travel time counted so far and whether A was found.
RECURSIVE WalkRoute(_, _, _, _, _, _)
WalkRoute(route, a, b, idx, travelTime, foundA) ==
    IF idx > Len(route.stops) THEN 0
    ELSE LET stop == route.stops[idx]
             found == foundA \/ stop = a
         IN IF stop = b THEN travelTime
            ELSE IF ~found
            THEN WalkRoute(route, a, b, idx + 1, travelTime, FALSE)
            ELSE LET edgeIt == FindEdgeForRoute(stop, route)
                 IN IF edgeIt = 0 THEN 0
                    ELSE WalkRoute(route, a, b, idx + 1,
                            travelTime + stations_[stop].edges[edgeIt].travelTime,
                            TRUE)

\* GetTravelTime(line, route, stationA, stationB).
GetTravelTimeOnRoute(line, route, a, b) ==
    IF ~HasRoute(line, route) THEN 0
    ELSE IF ~GetStation(stations_, a) \/ ~GetStation(stations_, b) THEN 0
    ELSE WalkRoute(GetRoute(line, route), a, b, 1, 0, FALSE)

\* -------------------------------------------------- GetFastestTravelRoute

\* The penalty added when the route changes between two consecutive edges.
RouteChangePenalty == 5

PathStop(node, edge) == [node |-> node, edge |-> edge]

\* TravelRoute{}: what a default-constructed TravelRoute holds.
EmptyTravelRoute ==
    [startStationId |-> "", endStationId |-> "", totalTravelTime |-> 0,
     steps |-> <<>>]

\* SameStationTravelRoute without the zero-length step.
SameStationNoStep(a) ==
    [startStationId |-> a, endStationId |-> a, totalTravelTime |-> 0,
     steps |-> <<>>]

\* The TravelRoute of the corner case "A and B are the same station".
SameStationTravelRoute(a) ==
    [startStationId |-> a, endStationId |-> a, totalTravelTime |-> 0,
     steps |-> << [startStationId |-> a, endStationId |-> a,
                   lineId |-> "", routeId |-> "", travelTime |-> 0] >>]

\* The TravelRoute of the corner case "no valid path between A and B".
NoPathTravelRoute(a, b) ==
    [startStationId |-> a, endStationId |-> b, totalTravelTime |-> 0,
     steps |-> <<>>]

NoQuery ==
    /\ stationA' = ""
    /\ stationB' = ""
    /\ distFromA' = <<>>
    /\ previousStop' = <<>>
    /\ nodesToVisit' = {}

\* The call, up to the first test of the while loop: the two early returns,
\* else the initialisation of distFromA and of the queue.
StartFastest(a, b) ==
    /\ pc = "idle"
    /\ ret' = [op |-> "GetFastestTravelRoute", ok |-> TRUE]
    /\ UNCHANGED timerVars
    /\ UNCHANGED mockVars
    /\ UNCHANGED <<stations_, lines_, events>>
    /\ IF ~GetStation(stations_, a) \/ ~GetStation(stations_, b)
       THEN /\ result' = EmptyTravelRoute
            /\ pc' = "done"
            /\ stationA' = a
            /\ stationB' = b
            /\ UNCHANGED <<distFromA, previousStop, nodesToVisit>>
       ELSE IF a = b
       THEN /\ result' = SameStationTravelRoute(a)
            /\ pc' = "done"
            /\ stationA' = a
            /\ stationB' = b
            /\ UNCHANGED <<distFromA, previousStop, nodesToVisit>>
       ELSE /\ stationA' = a
            /\ stationB' = b
            /\ distFromA' = (PathStop(a, NoEdge) :> 0)
            /\ previousStop' = <<>>
            /\ nodesToVisit' = { <<PathStop(a, NoEdge), 0>> }
            /\ pc' = "dijkstra"
            /\ UNCHANGED result

\* PathStopDistCmp: a is ordered before b (a is lower in the heap, later in
\* a sorted vector's reverse) when its distance is larger.
PathStopDistCmp(a, b) == a[2] > b[2]

\* NeighborDist with the penalty for a change of route forgotten.
NeighborDistNoPenalty(currStop, currentDistFromA, neighborEdge) ==
    currentDistFromA + neighborEdge.travelTime

\* The distance to a neighbor reached over neighborEdge from currStop.
NeighborDist(currStop, currentDistFromA, neighborEdge) ==
    currentDistFromA + neighborEdge.travelTime
    + (IF currStop.edge # NoEdge
          /\ EdgeAt(currStop.edge).route.uid # neighborEdge.route.uid
       THEN RouteChangePenalty ELSE 0)

\* Explore that takes a neighbour reached at the distance already recorded
\* as reached from the current stop: previousStop is written again.
RECURSIVE ExploreLastStopWins(_, _, _, _)
ExploreLastStopWins(currStop, currentDistFromA, idx, st) ==
    LET currEdges == stations_[currStop.node].edges
    IN IF idx > Len(currEdges) THEN st
       ELSE LET neighborEdge == currEdges[idx]
                neighbor == PathStop(neighborEdge.nextStop, <<currStop.node, idx>>)
                neighborDistFromA ==
                    NeighborDist(currStop, currentDistFromA, neighborEdge)
                better == \/ neighbor \notin DOMAIN st.dist
                          \/ neighborDistFromA < st.dist[neighbor]
                same == /\ neighbor \in DOMAIN st.dist
                        /\ neighborDistFromA = st.dist[neighbor]
                st2 == IF better
                       THEN [dist |-> (neighbor :> neighborDistFromA) @@ st.dist,
                             prev |-> (neighbor :> currStop) @@ st.prev,
                             queue |-> st.queue \cup
                                        { <<neighbor, neighborDistFromA>> }]
                       ELSE IF same
                       THEN [st EXCEPT !.prev = (neighbor :> currStop) @@ @]
                       ELSE st
            IN ExploreLastStopWins(currStop, currentDistFromA, idx + 1, st2)

\* Explore with the test of an improvement not strict: a neighbour reached at
\* the distance already recorded is pushed again.
RECURSIVE ExploreNotWorse(_, _, _, _)
ExploreNotWorse(currStop, currentDistFromA, idx, st) ==
    LET currEdges == stations_[currStop.node].edges
    IN IF idx > Len(currEdges) THEN st
       ELSE LET neighborEdge == currEdges[idx]
                neighbor == PathStop(neighborEdge.nextStop, <<currStop.node, idx>>)
                neighborDistFromA ==
                    NeighborDist(currStop, currentDistFromA, neighborEdge)
                better == \/ neighbor \notin DOMAIN st.dist
                          \/ neighborDistFromA <= st.dist[neighbor]
                st2 == IF better
                       THEN [dist |-> (neighbor :> neighborDistFromA) @@ st.dist,
                             prev |-> (neighbor :> currStop) @@ st.prev,
                             queue |-> st.queue \cup
                                        { <<neighbor, neighborDistFromA>> }]
                       ELSE st
            IN ExploreNotWorse(currStop, currentDistFromA, idx + 1, st2)

\* The for loop over currStation->edges, from index idx on, on the three
\* containers st = [dist, prev, queue].
RECURSIVE Explore(_, _, _, _)
Explore(currStop, currentDistFromA, idx, st) ==
    LET currEdges == stations_[currStop.node].edges
    IN IF idx > Len(currEdges) THEN st
       ELSE LET neighborEdge == currEdges[idx]
                neighbor == PathStop(neighborEdge.nextStop, <<currStop.node, idx>>)
                neighborDistFromA ==
                    NeighborDist(currStop, currentDistFromA, neighborEdge)
                better == \/ neighbor \notin DOMAIN st.dist
                          \/ neighborDistFromA < st.dist[neighbor]
                st2 == IF better
                       THEN [dist |-> (neighbor :> neighborDistFromA) @@ st.dist,
                             prev |-> (neighbor :> currStop) @@ st.prev,
                             queue |-> st.queue \cup
                                        { <<neighbor, neighborDistFromA>> }]
                       ELSE st
            IN Explore(currStop, currentDistFromA, idx + 1, st2)

\* priority_queue::top under PathStopDistCmp: an entry no other entry is
\* ordered after. Which of several entries of the same distance is on top
\* depends on the heap, so any of them may be.
IsTop(entry) == \A other \in nodesToVisit : ~PathStopDistCmp(entry, other)

\* One iteration of the while loop.
DijkstraStep ==
    /\ pc = "dijkstra"
    /\ nodesToVisit # {}
    /\ \E entry \in nodesToVisit :
        /\ IsTop(entry)
        /\ LET currStop == entry[1]
               currentDistFromA == entry[2]
               popped == nodesToVisit \ {entry}
           IN IF currStop.node = stationB
              THEN /\ nodesToVisit' = popped
                   /\ UNCHANGED <<distFromA, previousStop>>
              ELSE LET st == Explore(currStop, currentDistFromA, 1,
                                [dist |-> distFromA, prev |-> previousStop,
                                 queue |-> popped])
                   IN /\ distFromA' = st.dist
                      /\ previousStop' = st.prev
                      /\ nodesToVisit' = st.queue
    /\ UNCHANGED timerVars
    /\ UNCHANGED mockVars
    /\ UNCHANGED <<stations_, lines_, ret, pc, stationA, stationB, result,
                   events>>

\* PathsToB with the test on the station wrong: every entry but the start.
PathsToBWrongTest == { <<ps, distFromA[ps]>> : ps \in
                { q \in DOMAIN distFromA : q.node # stationA } }

\* The entries of distFromA whose station is station B.
PathsToB == { <<ps, distFromA[ps]>> : ps \in
                { q \in DOMAIN distFromA : q.node = stationB } }

\* AssembleSteps without the final std::reverse: the steps stay in the order
\* of the walk back from B.
RECURSIVE AssembleStepsNotReversed(_)
AssembleStepsNotReversed(stop) ==
    IF stop.node = stationA THEN <<>>
    ELSE LET prevStop == previousStop[stop]
         IN << [startStationId |-> prevStop.node,
                endStationId |-> stop.node,
                lineId |-> EdgeAt(stop.edge).route.line,
                routeId |-> EdgeAt(stop.edge).route.id,
                travelTime |-> EdgeAt(stop.edge).travelTime] >>
            \o AssembleStepsNotReversed(prevStop)

\* The while loop that walks previousStop back from stop to station A; the
\* steps come out in travel order (the code reverses them at the end).
RECURSIVE AssembleSteps(_)
AssembleSteps(stop) ==
    IF stop.node = stationA THEN <<>>
    ELSE LET prevStop == previousStop[stop]
         IN Append(AssembleSteps(prevStop),
                   [startStationId |-> prevStop.node,
                    endStationId |-> stop.node,
                    lineId |-> EdgeAt(stop.edge).route.line,
                    routeId |-> EdgeAt(stop.edge).route.id,
                    travelTime |-> EdgeAt(stop.edge).travelTime])

\* pathsToB.back() after std::sort with PathStopDistCmp: an entry that no
\* other entry must follow.
IsFastestPathToB(entry) ==
    \A other \in PathsToB : ~PathStopDistCmp(entry, other)

\* The code after the while loop.
Assemble ==
    /\ pc = "dijkstra"
    /\ nodesToVisit = {}
    /\ IF PathsToB = {}
       THEN result' = NoPathTravelRoute(stationA, stationB)
       ELSE \E fastestPathToB \in PathsToB :
              /\ IsFastestPathToB(fastestPathToB)
              /\ result' = [startStationId |-> stationA,
                            endStationId |-> stationB,
                            totalTravelTime |-> fastestPathToB[2],
                            steps |-> AssembleSteps(fastestPathToB[1])]
    /\ pc' = "done"
    /\ UNCHANGED timerVars
    /\ UNCHANGED mockVars
    /\ UNCHANGED <<stations_, lines_, ret, stationA, stationB, distFromA,
                   previousStop, nodesToVisit, events>>

\* The caller has taken the returned TravelRoute; the locals of the call are
\* gone.
Return ==
    /\ pc = "done"
    /\ pc' = "idle"
    /\ result' = <<>>
    /\ NoQuery
    /\ UNCHANGED timerVars
    /\ UNCHANGED mockVars
    /\ UNCHANGED <<stations_, lines_, ret, events>>

\* ------------------------------------------------------------------ timer

\* The clock reads 1..MaxNow; at most MaxTimers Timer objects are constructed.
MaxNow == 2
MaxTimers == 3

TimerNames == {"x", "y"}

\* The Timer objects a caller holds at one time.
TimerHandles == {"t1", "t2"}

\* Clock::duration::max(): above every duration this clock can measure.
DurationMax == MaxNow

\* TimerMeasurement{}: no start, no stop; a time point of count 0 is one that
\* has not been set. by is the timer whose constructor made the measurement.
TimerMeasurement(serial) == [start |-> 0, stop |-> 0, by |-> serial]

IsComplete(m) == m.start # 0 /\ m.stop # 0

GetDuration(m) ==
    IF m.start = 0 THEN [thrown |-> TRUE, value |-> 0]
    ELSE IF m.stop = 0 THEN [thrown |-> TRUE, value |-> 0]
    ELSE [thrown |-> FALSE, value |-> m.stop - m.start]

\* The timers constructed with this name since the last ClearAll.
MadeSince(name) ==
    { i \in DOMAIN made : made[i].name = name /\ ~made[i].cleared }

\* Timer::Timer(name), on the object of handle h.
Timer(h, name) ==
    /\ ~terminated
    /\ h \notin DOMAIN instances
    /\ Len(made) < MaxTimers
    /\ LET serial == Len(made) + 1
           before == IF name \in DOMAIN measurements
                     THEN measurements[name] ELSE <<>>
           started == [TimerMeasurement(serial) EXCEPT !.start = now]
           id == Len(before)
       IN /\ measurements' = (name :> Append(before, started)) @@ measurements
          /\ order' = IF id = 0 THEN Append(order, name) ELSE order
          /\ instances' = instances @@
                (h :> [name_ |-> name, id_ |-> id, serial |-> serial])
          /\ made' = Append(made, [name |-> name, cleared |-> FALSE])
    /\ ret' = [op |-> "Timer", ok |-> TRUE]
    /\ UNCHANGED <<now, terminated, stopped>>
    /\ UNCHANGED netVars
    /\ UNCHANGED mockVars

\* What Timer::Stop can leave behind, on the object inst. at() of a name the
\* map does not hold throws out of a noexcept function, which terminates the
\* program; an id_ past the end of the vector is undefined behaviour, which
\* ends the program or changes no measurement.
StopOn(inst) ==
    IF inst.name_ \notin DOMAIN measurements
    THEN { [measurements |-> measurements, terminated |-> TRUE] }
    ELSE IF inst.id_ + 1 > Len(measurements[inst.name_])
    THEN { [measurements |-> measurements, terminated |-> TRUE],
           [measurements |-> measurements, terminated |-> FALSE] }
    ELSE IF ~IsComplete(measurements[inst.name_][inst.id_ + 1])
    THEN { [measurements |->
               [measurements EXCEPT ![inst.name_][inst.id_ + 1].stop = now],
            terminated |-> FALSE] }
    ELSE { [measurements |-> measurements, terminated |-> FALSE] }

\* Timer::Stop(), on the object of handle h.
Stop(h) ==
    /\ ~terminated
    /\ h \in DOMAIN instances
    /\ \E o \in StopOn(instances[h]) :
          /\ measurements' = o.measurements
          /\ terminated' = o.terminated
          /\ ret' = [op |-> "Stop", ok |-> ~o.terminated]
    /\ stopped' = stopped \cup { instances[h].serial }
    /\ UNCHANGED <<order, instances, now, made>>
    /\ UNCHANGED netVars
    /\ UNCHANGED mockVars

\* Timer::~Timer(): Stop(), and the object is gone.
DestroyTimer(h) ==
    /\ ~terminated
    /\ h \in DOMAIN instances
    /\ \E o \in StopOn(instances[h]) :
          /\ measurements' = o.measurements
          /\ terminated' = o.terminated
          /\ ret' = [op |-> "~Timer", ok |-> ~o.terminated]
    /\ stopped' = stopped \cup { instances[h].serial }
    /\ instances' = [g \in DOMAIN instances \ {h} |-> instances[g]]
    /\ UNCHANGED <<order, now, made>>
    /\ UNCHANGED netVars
    /\ UNCHANGED mockVars

\* ClearAll with the measurements kept: only the order of the names is cleared.
ClearAllOrderOnly ==
    /\ ~terminated
    /\ measurements' = measurements
    /\ order' = <<>>
    /\ made' = [i \in DOMAIN made |-> [made[i] EXCEPT !.cleared = TRUE]]
    /\ ret' = [op |-> "ClearAll", ok |-> TRUE]
    /\ UNCHANGED <<instances, now, terminated, stopped>>
    /\ UNCHANGED netVars
    /\ UNCHANGED mockVars

\* Timer::ClearAll().
ClearAll ==
    /\ ~terminated
    /\ measurements' = [n \in {} |-> <<>>]
    /\ order' = <<>>
    /\ made' = [i \in DOMAIN made |-> [made[i] EXCEPT !.cleared = TRUE]]
    /\ ret' = [op |-> "ClearAll", ok |-> TRUE]
    /\ UNCHANGED <<instances, now, terminated, stopped>>
    /\ UNCHANGED netVars
    /\ UNCHANGED mockVars

\* TimerResults{}.
EmptyTimerResults == [best |-> 0, worst |-> 0, avg |-> 0, nSamples |-> 0]

\* The loop of GetResults with avg left as the sum of the durations.
RECURSIVE GetResultsLoopNoMean(_, _)
GetResultsLoopNoMean(ms, acc) ==
    IF ms = <<>> THEN acc
    ELSE LET duration == GetDuration(Head(ms))
         IN IF duration.thrown
            THEN [acc EXCEPT !.thrown = TRUE]
            ELSE GetResultsLoopNoMean(Tail(ms),
                    [acc EXCEPT
                       !.results.avg = @ + duration.value,
                       !.results.worst =
                            IF duration.value > @ THEN duration.value ELSE @,
                       !.results.best =
                            IF duration.value < @ THEN duration.value ELSE @])

\* The for loop of GetResults over the measurements ms still to read.
RECURSIVE GetResultsLoop(_, _)
GetResultsLoop(ms, acc) ==
    IF ms = <<>>
    THEN [acc EXCEPT !.results.avg = @ \div acc.results.nSamples]
    ELSE LET duration == GetDuration(Head(ms))
         IN IF duration.thrown
            THEN [acc EXCEPT !.thrown = TRUE]
            ELSE GetResultsLoop(Tail(ms),
                    [acc EXCEPT
                       !.results.avg = @ + duration.value,
                       !.results.worst =
                            IF duration.value > @ THEN duration.value ELSE @,
                       !.results.best =
                            IF duration.value < @ THEN duration.value ELSE @])

\* Timer::GetResults(name): what it returns, or that it throws.
GetResults(name) ==
    IF name \notin DOMAIN measurements
    THEN [thrown |-> TRUE, results |-> EmptyTimerResults]
    ELSE IF Len(measurements[name]) = 0
    THEN [thrown |-> FALSE, results |-> EmptyTimerResults]
    ELSE GetResultsLoop(measurements[name],
            [thrown |-> FALSE,
             results |-> [best |-> DurationMax, worst |-> 0, avg |-> 0,
                          nSamples |-> Len(measurements[name])]])

\* A call of the static Timer::GetResults(name).
CallGetResults(name) ==
    /\ ~terminated
    /\ LET r == GetResults(name)
       IN ret' = [op |-> "GetResults", ok |-> ~r.thrown, name |-> name,
                  results |-> r.results]
    /\ UNCHANGED timerVars
    /\ UNCHANGED netVars
    /\ UNCHANGED mockVars

\* A call of the member GetResults() on the object of handle h.
GetResultsOf(h) ==
    /\ h \in DOMAIN instances
    /\ CallGetResults(instances[h].name_)

\* The clock moves on.
Tick ==
    /\ ~terminated
    /\ now < MaxNow
    /\ now' = now + 1
    /\ UNCHANGED <<measurements, order, instances, terminated, made, stopped>>
    /\ UNCHANGED ret
    /\ UNCHANGED netVars
    /\ UNCHANGED mockVars

\* ------------------------------------------------- mock WebSocket client

\* The user makes at most MaxCalls calls of Connect, Send and Close.
MaxCalls == 3

\* What the test has set in the static members of the mock STOMP server.
endpoint == "/passengers"
username == "some_username"
password == "some_password_123"
subscriptionMessages == <<"m1", "m2">>

\* A STOMP frame: its command, its headers and its body.
StompFrame(command, headers, body) ==
    [command |-> command, headers |-> headers, body |-> body]

NoHeaders == [h \in {} |-> ""]

\* The texts the user passes to Send: one that is no STOMP frame, and the
\* texts of frames.
NotAFrame == [command |-> "", headers |-> NoHeaders, body |-> "not a frame"]

ConnectFrames ==
    { StompFrame("CONNECT", ("login" :> username) @@ ("passcode" :> password), ""),
      StompFrame("CONNECT", ("login" :> username) @@ ("passcode" :> "wrong"), ""),
      StompFrame("CONNECT", ("passcode" :> password), ""),
      StompFrame("STOMP", ("login" :> username) @@ ("passcode" :> password), ""),
      StompFrame("STOMP", ("login" :> "wrong") @@ ("passcode" :> password), "") }

SubscribeFrames ==
    { StompFrame("SUBSCRIBE", hs, "") :
        hs \in { ("destination" :> endpoint) @@ ("id" :> "s1")
                    @@ ("receipt" :> "r1"),
                 ("destination" :> endpoint) @@ ("id" :> "s1"),
                 ("destination" :> endpoint),
                 ("destination" :> "/other") @@ ("id" :> "s1")
                    @@ ("receipt" :> "r1") } }

SendFrames ==
    { StompFrame("SEND", ("destination" :> endpoint), "body") }

Messages == {NotAFrame} \cup ConnectFrames \cup SubscribeFrames \cup SendFrames

\* The calls of Send: every message with a callback, one without.
SendInputs ==
    { <<m, TRUE>> : m \in Messages }
        \cup { << StompFrame("CONNECT", ("login" :> username)
                                @@ ("passcode" :> password), ""), FALSE >> }

\* StompFrame{error, msg}: whether the text parses as a frame.
Parses(msg) == msg # NotAFrame

HasHeader(frame, header) == header \in DOMAIN frame.headers

\* GetHeaderValue: the value of the header, the empty text when the frame
\* does not have it.
GetHeaderValue(frame, header) ==
    IF header \in DOMAIN frame.headers THEN frame.headers[header] ELSE ""

MakeConnectedFrame ==
    StompFrame("CONNECTED", ("version" :> "1.2") @@ ("session" :> "42"), "")

MakeReceiptFrame(id) == StompFrame("RECEIPT", ("receipt-id" :> id), "")

MakeErrorFrame(msg) ==
    StompFrame("ERROR",
               ("version" :> "1.2") @@ ("content-type" :> "text/plain"), msg)

MakeMessageFrame(destination, subscriptionId, message) ==
    StompFrame("MESSAGE",
               ("subscription" :> subscriptionId) @@ ("message-id" :> "0")
                 @@ ("destination" :> destination)
                 @@ ("content-type" :> "application/json"),
               message)

\* CheckConnection with the passcode not compared.
CheckConnectionLoginOnly(frame) ==
    IF ~(HasHeader(frame, "login") /\ HasHeader(frame, "passcode")) THEN FALSE
    ELSE GetHeaderValue(frame, "login") = username

CheckConnection(frame) ==
    IF ~(HasHeader(frame, "login") /\ HasHeader(frame, "passcode")) THEN FALSE
    ELSE /\ GetHeaderValue(frame, "login") = username
         /\ GetHeaderValue(frame, "passcode") = password

\* CheckSubscription: the pair (receipt id, subscription id).
CheckSubscription(frame) ==
    IF GetHeaderValue(frame, "destination") # endpoint THEN <<"", "">>
    ELSE <<GetHeaderValue(frame, "receipt"), GetHeaderValue(frame, "id")>>

\* The frames of the subscription messages, in their order.
SubscriptionFrames(subscriptionId) ==
    [i \in DOMAIN subscriptionMessages |->
        MakeMessageFrame(endpoint, subscriptionId, subscriptionMessages[i])]

\* OnMessage with the receipt pushed after the subscription messages.
OnMessageReceiptLast(msg) ==
    IF ~Parses(msg) THEN [push |-> <<>>, trigger |-> TRUE]
    ELSE IF msg.command \in {"STOMP", "CONNECT"}
    THEN IF CheckConnection(msg)
         THEN [push |-> <<MakeConnectedFrame>>, trigger |-> FALSE]
         ELSE [push |-> <<MakeErrorFrame("Connect")>>, trigger |-> TRUE]
    ELSE IF msg.command = "SUBSCRIBE"
    THEN LET receiptId == CheckSubscription(msg)[1]
             subscriptionId == CheckSubscription(msg)[2]
         IN IF subscriptionId # ""
            THEN [push |-> SubscriptionFrames(subscriptionId)
                            \o (IF receiptId # ""
                                THEN <<MakeReceiptFrame(receiptId)>>
                                ELSE <<>>),
                  trigger |-> FALSE]
            ELSE [push |-> <<MakeErrorFrame("Subscribe")>>, trigger |-> TRUE]
    ELSE [push |-> <<>>, trigger |-> FALSE]

\* MockWebSocketClientForStomp::OnMessage(msg): the frames it pushes to
\* messageQueue and whether it sets triggerDisconnection.
OnMessage(msg) ==
    IF ~Parses(msg) THEN [push |-> <<>>, trigger |-> TRUE]
    ELSE IF msg.command \in {"STOMP", "CONNECT"}
    THEN IF CheckConnection(msg)
         THEN [push |-> <<MakeConnectedFrame>>, trigger |-> FALSE]
         ELSE [push |-> <<MakeErrorFrame("Connect")>>, trigger |-> TRUE]
    ELSE IF msg.command = "SUBSCRIBE"
    THEN LET receiptId == CheckSubscription(msg)[1]
             subscriptionId == CheckSubscription(msg)[2]
         IN IF subscriptionId # ""
            THEN [push |-> (IF receiptId # ""
                            THEN <<MakeReceiptFrame(receiptId)>>
                            ELSE <<>>)
                           \o SubscriptionFrames(subscriptionId),
                  trigger |-> FALSE]
            ELSE [push |-> <<MakeErrorFrame("Subscribe")>>, trigger |-> TRUE]
    ELSE [push |-> <<>>, trigger |-> FALSE]

\* The test sets the static connectEc, before it makes a call.
SetConnectEc(ec) ==
    /\ calls = 0
    /\ connectEc # ec
    /\ connectEc' = ec
    /\ ret' = [op |-> "SetConnectEc", ok |-> TRUE]
    /\ UNCHANGED <<connected_, closed_, triggerDisconnection, messageQueue,
                   strand, pushed, delivered, calls>>
    /\ UNCHANGED netVars
    /\ UNCHANGED timerVars

\* MockWebSocketClient::Connect: it posts one handler when connectEc is set,
\* two when it is not.
Connect ==
    /\ calls < MaxCalls
    /\ calls' = calls + 1
    /\ strand' = IF connectEc # ""
                 THEN Append(strand, [h |-> "connect", ok |-> FALSE])
                 ELSE strand \o << [h |-> "connect", ok |-> TRUE],
                                   [h |-> "incoming"] >>
    /\ ret' = [op |-> "Connect", ok |-> TRUE]
    /\ UNCHANGED <<connected_, closed_, triggerDisconnection, messageQueue,
                   connectEc, pushed, delivered>>
    /\ UNCHANGED netVars
    /\ UNCHANGED timerVars

\* Send that takes the client for connected whatever connected_ says.
SendUnconnected(message, onSend) ==
    /\ calls < MaxCalls
    /\ calls' = calls + 1
    /\ strand' = Append(strand, [h |-> "send", message |-> message,
                                 onSend |-> onSend])
    /\ ret' = [op |-> "Send", ok |-> TRUE]
    /\ UNCHANGED <<connected_, closed_, triggerDisconnection, messageQueue,
                   connectEc, pushed, delivered>>
    /\ UNCHANGED netVars
    /\ UNCHANGED timerVars

\* MockWebSocketClient::Send(message, onSend), onSend a callback or none.
Send(message, onSend) ==
    /\ calls < MaxCalls
    /\ calls' = calls + 1
    /\ strand' = IF connected_
                 THEN Append(strand, [h |-> "send", message |-> message,
                                      onSend |-> onSend])
                 ELSE Append(strand, [h |-> "sendAborted", onSend |-> onSend])
    /\ ret' = [op |-> "Send", ok |-> TRUE]
    /\ UNCHANGED <<connected_, closed_, triggerDisconnection, messageQueue,
                   connectEc, pushed, delivered>>
    /\ UNCHANGED netVars
    /\ UNCHANGED timerVars

\* MockWebSocketClient::Close(onClose).
Close ==
    /\ calls < MaxCalls
    /\ calls' = calls + 1
    /\ strand' = IF connected_
                 THEN Append(strand, [h |-> "close"])
                 ELSE Append(strand, [h |-> "closeAborted"])
    /\ ret' = [op |-> "Close", ok |-> TRUE]
    /\ UNCHANGED <<connected_, closed_, triggerDisconnection, messageQueue,
                   connectEc, pushed, delivered>>
    /\ UNCHANGED netVars
    /\ UNCHANGED timerVars

\* MockIncomingMessages: the handler it posts and what it leaves in
\* triggerDisconnection.
MockIncomingMessages(conn, trigger, closed) ==
    IF ~conn \/ trigger
    THEN [trigger |-> FALSE, post |-> [h |-> "disconnect", closed |-> closed]]
    ELSE [trigger |-> trigger, post |-> [h |-> "message"]]

\* What the handler hd, the oldest of the strand, does when it runs: the
\* members after it, the handlers it posts and the callbacks it invokes.
Handle(hd) ==
    LET same == [connected |-> connected_, closed |-> closed_,
                 trigger |-> triggerDisconnection, queue |-> messageQueue,
                 push |-> <<>>, post |-> <<>>, invoked |-> <<>>]
    IN IF hd.h = "connect"
       THEN [same EXCEPT !.connected = hd.ok,
                         !.invoked = << [cb |-> "onConnect", ec |-> connectEc] >>]
       ELSE IF hd.h = "incoming"
       THEN LET m == MockIncomingMessages(connected_, triggerDisconnection,
                                          closed_)
            IN [same EXCEPT !.trigger = m.trigger, !.post = <<m.post>>]
       ELSE IF hd.h = "send"
       THEN IF hd.onSend
            THEN LET r == OnMessage(hd.message)
                 IN [same EXCEPT
                       !.queue = @ \o r.push,
                       !.push = r.push,
                       !.trigger = @ \/ r.trigger,
                       !.invoked = << [cb |-> "onSend", ec |-> "sendEc"] >>]
            ELSE same
       ELSE IF hd.h = "sendAborted"
       THEN IF hd.onSend
            THEN [same EXCEPT !.invoked =
                    << [cb |-> "onSend", ec |-> "operation_aborted"] >>]
            ELSE same
       ELSE IF hd.h = "close"
       THEN [same EXCEPT !.connected = FALSE,
                         !.closed = TRUE,
                         !.trigger = TRUE,
                         !.invoked = << [cb |-> "onClose", ec |-> "closeEc"] >>]
       ELSE IF hd.h = "closeAborted"
       THEN [same EXCEPT !.invoked =
                << [cb |-> "onClose", ec |-> "operation_aborted"] >>]
       ELSE IF hd.h = "disconnect"
       THEN IF ~hd.closed
            THEN [same EXCEPT !.invoked =
                    << [cb |-> "onDisconnect", ec |-> "operation_aborted"] >>]
            ELSE same
       ELSE LET delivers == messageQueue # <<>>
                m == MockIncomingMessages(connected_, triggerDisconnection,
                                          closed_)
            IN [same EXCEPT
                  !.queue = IF delivers THEN Tail(@) ELSE @,
                  !.invoked = IF delivers
                              THEN << [cb |-> "onMessage",
                                       message |-> Head(messageQueue)] >>
                              ELSE <<>>,
                  !.trigger = m.trigger,
                  !.post = <<m.post>>]

\* The io_context runs the oldest handler of the strand.
RunHandler ==
    /\ strand # <<>>
    /\ LET r == Handle(Head(strand))
       IN /\ connected_' = r.connected
          /\ closed_' = r.closed
          /\ triggerDisconnection' = r.trigger
          /\ messageQueue' = r.queue
          /\ strand' = Tail(strand) \o r.post
          /\ pushed' = pushed \o r.push
          /\ delivered' = IF r.invoked # <<>> /\ r.invoked[1].cb = "onMessage"
                          THEN Append(delivered, r.invoked[1].message)
                          ELSE delivered
          /\ ret' = [op |-> "RunHandler", ok |-> TRUE, handler |-> Head(strand),
                     invoked |-> r.invoked]
    /\ UNCHANGED <<connectEc, calls>>
    /\ UNCHANGED netVars
    /\ UNCHANGED timerVars

\* ------------------------------------------------------------------- spec

Init ==
    /\ stations_ = [s \in {} |-> 0]
    /\ lines_ = [l \in {} |-> 0]
    /\ ret = [op |-> "none", ok |-> TRUE]
    /\ pc = "idle"
    /\ stationA = ""
    /\ stationB = ""
    /\ distFromA = <<>>
    /\ previousStop = <<>>
    /\ nodesToVisit = {}
    /\ result = <<>>
    /\ events = [s \in StationIds |-> [nIn |-> 0, nOut |-> 0]]
    /\ measurements = [n \in {} |-> <<>>]
    /\ order = <<>>
    /\ instances = [h \in {} |-> 0]
    /\ now = 1
    /\ terminated = FALSE
    /\ made = <<>>
    /\ stopped = {}
    /\ connected_ = FALSE
    /\ closed_ = FALSE
    /\ triggerDisconnection = FALSE
    /\ messageQueue = <<>>
    /\ connectEc = ""
    /\ strand = <<>>
    /\ pushed = <<>>
    /\ delivered = <<>>
    /\ calls = 0

Next ==
    \/ \E id \in StationIds : AddStation(Station(id, "Alpha"))
    \/ \E line \in LineInputs : AddLine(line)
    \/ \E a \in StationIds, b \in StationIds, t \in TimeValues :
            SetTravelTime(a, b, t)
    \/ \E a \in StationIds, b \in StationIds : StartFastest(a, b)
    \/ DijkstraStep
    \/ Assemble
    \/ Return

Spec == Init /\ [][Next]_vars

\* The same calls, with the passenger events between them; the lines come
\* with one line id and the events name two of the station ids.
NextCounts ==
    \/ \E id \in StationIds : AddStation(Station(id, "Alpha"))
    \/ \E line \in { l \in LineInputs : l.id = "L1" } : AddLine(line)
    \/ \E a \in StationIds, b \in StationIds, t \in TimeValues :
            SetTravelTime(a, b, t)
    \/ \E s \in {"A", "B"}, type \in EventTypes : RecordPassengerEvent(s, type)
    \/ \E a \in StationIds, b \in StationIds : StartFastest(a, b)
    \/ DijkstraStep
    \/ Assemble
    \/ Return

SpecCounts == Init /\ [][NextCounts]_vars

\* The calls that fill the network and record passenger events, the stations
\* under two names, without the route search.
NextEvents ==
    \/ \E id \in StationIds, name \in StationNames :
            AddStation(Station(id, name))
    \/ \E rs \in {<<Rt("R1", <<"A", "B">>)>>, <<Rt("R1", <<"C", "B">>)>>} :
            AddLine([id |-> "L1", routes |-> rs])
    \/ \E s \in StationIds, t \in EventTypes : RecordPassengerEvent(s, t)

SpecEvents == Init /\ [][NextEvents]_vars

\* The calls that fill the network and set the travel times, with every line
\* of StoreLineInputs, without the route search.
NextStore ==
    \/ \E id \in StationIds : AddStation(Station(id, "Alpha"))
    \/ \E line \in StoreLineInputs : AddLine(line)
    \/ \E a \in StationIds, b \in StationIds, t \in TimeValues :
            SetTravelTime(a, b, t)

SpecStore == Init /\ [][NextStore]_vars

\* The loader, on an empty network or after other calls, and the calls that
\* follow it.
NextLoad ==
    \/ \E src \in JsonInputs : FromJson(src)
    \/ \E id \in StationIds : AddStation(Station(id, "Alpha"))
    \/ AddLine([id |-> "L2", routes |-> <<Rt("R1", <<"B", "A">>)>>])
    \/ \E t \in TimeValues : SetTravelTime("A", "B", t)

SpecLoad == Init /\ [][NextLoad]_vars

\* The timers: constructed, stopped, destroyed and cleared in any order, the
\* results read at any time, the clock moving on between the calls.
NextTimer ==
    \/ \E h \in TimerHandles, name \in TimerNames : Timer(h, name)
    \/ \E h \in TimerHandles : Stop(h)
    \/ \E h \in TimerHandles : DestroyTimer(h)
    \/ ClearAll
    \/ \E name \in TimerNames : CallGetResults(name)
    \/ \E h \in TimerHandles : GetResultsOf(h)
    \/ Tick

SpecTimer == Init /\ [][NextTimer]_vars

\* The mock client: the test sets the error code, the user connects, sends
\* and closes at any time, the io_context runs the handlers in their order.
NextMock ==
    \/ \E ec \in {"", "connection_refused"} : SetConnectEc(ec)
    \/ Connect
    \/ \E in \in SendInputs : Send(in[1], in[2])
    \/ Close
    \/ RunHandler

SpecMock == Init /\ [][NextMock]_vars

\* ----------------------------------------------------------------- claims

Known(a) == GetStation(stations_, a)

\* The edges that join a and b directly, in either direction.
EdgesJoining(a, b) ==
    { r \in EdgeRefs : \/ r[1] = a /\ EdgeAt(r).nextStop = b
                       \/ r[1] = b /\ EdgeAt(r).nextStop = a }

\* C1: an AddLine call that returns false leaves the observable state as it
\* was: no station gained an edge, no line was registered, and GetTravelTime
\* and SetTravelTime answer as before for all arguments.
C1_AddLineAtomic ==
    [][(ret'.op = "AddLine" /\ ~ret'.ok) =>
        /\ stations_' = stations_
        /\ lines_' = lines_
        /\ \A a \in StationIds, b \in StationIds :
            /\ GetTravelTime(a, b)' = GetTravelTime(a, b)
            /\ SetTravelTimeResult(a, b, MaxTime).ok'
                 = SetTravelTimeResult(a, b, MaxTime).ok]_vars

\* C7: GetTravelTime(A, B) = GetTravelTime(B, A) for all stations, in every
\* state reached by AddStation, AddLine and SetTravelTime calls.
C7_GetTravelTimeSymmetric ==
    \A a \in DOMAIN stations_, b \in DOMAIN stations_ :
        GetTravelTime(a, b) = GetTravelTime(b, a)

\* C8: SetTravelTime(A, B, t) on two stations joined by an edge returns true
\* and leaves every edge A -> B and B -> A, on every route, with travel
\* time t, so that GetTravelTime(A, B) = GetTravelTime(B, A) = t.
C8_SetTravelTimeSetsAllEdges ==
    [][(ret'.op = "SetTravelTime") =>
        \A a \in StationIds, b \in StationIds, t \in TimeValues :
          (SetTravelTime(a, b, t) /\ Known(a) /\ Known(b)
              /\ EdgesJoining(a, b) # {}) =>
            /\ ret'.ok
            /\ \A r \in EdgesJoining(a, b)' : EdgeAt(r)'.travelTime = t
            /\ EdgesJoining(a, b)' = EdgesJoining(a, b)
            /\ GetTravelTime(a, b)' = t
            /\ GetTravelTime(b, a)' = t]_vars

\* C8 witness: SetTravelTime has just returned true on a pair joined in both
\* directions, and every edge of the pair carries MaxTime.
C8_Witness ==
    /\ ret = [op |-> "SetTravelTime", ok |-> TRUE]
    /\ \E a \in DOMAIN stations_, b \in DOMAIN stations_ :
        /\ a # b
        /\ FirstEdgeTo(a, b) # 0
        /\ FirstEdgeTo(b, a) # 0
        /\ \A r \in EdgesJoining(a, b) : EdgeAt(r).travelTime = MaxTime

\* C9: all edges that join the same unordered pair of stations, on any route
\* and in either direction, carry the same travel time.
C9_SameTimeOnAllEdgesOfAPair ==
    \A a \in DOMAIN stations_, b \in DOMAIN stations_ :
        \A r1 \in EdgesJoining(a, b), r2 \in EdgesJoining(a, b) :
            EdgeAt(r1).travelTime = EdgeAt(r2).travelTime

\* C10: SetTravelTime(A, B, t) returns false and changes no travel time when
\* A or B is not a station, when A = B, or when no edge joins A and B.
C10_SetTravelTimeFails ==
    [][(ret'.op = "SetTravelTime") =>
        \A a \in StationIds, b \in StationIds, t \in TimeValues :
          (SetTravelTime(a, b, t)
              /\ (~Known(a) \/ ~Known(b) \/ a = b \/ EdgesJoining(a, b) = {})) =>
            /\ ~ret'.ok
            /\ stations_' = stations_]_vars

\* ------------------------------------------------- claims on the search

\* The call has returned a TravelRoute for two distinct stations of the
\* network.
DoneDistinct ==
    /\ pc = "done"
    /\ Known(stationA)
    /\ Known(stationB)
    /\ stationA # stationB

\* The walks of exactly n edges that leave station a, as sequences of edges.
RECURSIVE WalksOfLen(_, _)
WalksOfLen(a, n) ==
    IF n = 1 THEN { <<r>> : r \in { e \in EdgeRefs : e[1] = a } }
    ELSE UNION { { Append(w, r) : r \in
                     { e \in EdgeRefs : e[1] = EdgeAt(w[n - 1]).nextStop } }
                 : w \in WalksOfLen(a, n - 1) }

\* The walks from a to b. A walk that takes an edge twice is never cheaper
\* than the walk without the loop between the two, so walks of at most
\* NumEdges edges decide the minimum.
Walks(a, b) ==
    { w \in UNION { WalksOfLen(a, n) : n \in 1..NumEdges } :
        EdgeAt(w[Len(w)]).nextStop = b }

\* Sum of the travel times of a walk, plus the penalty for every two
\* consecutive edges of different routes.
WalkCost(w) ==
    SumSeq([i \in DOMAIN w |-> EdgeAt(w[i]).travelTime])
    + RouteChangePenalty * Cardinality(
        { i \in 1..Len(w) - 1 :
            EdgeAt(w[i]).route.uid # EdgeAt(w[i + 1]).route.uid })

MinWalkCost(a, b) ==
    CHOOSE c \in { WalkCost(w) : w \in Walks(a, b) } :
        \A w \in Walks(a, b) : c <= WalkCost(w)

\* C2: for distinct stations A, B with B reachable from A, the total travel
\* time of the fastest route is the minimum cost over all walks from A to B.
C2_FastestIsMinimumOverWalks ==
    (DoneDistinct /\ Walks(stationA, stationB) # {}) =>
        result.totalTravelTime = MinWalkCost(stationA, stationB)

\* C2 witness: B was reached over two edges at different distances, the
\* dearer one being the direct edge found first, and the route returned is
\* the cheaper one that changes route.
C2_Witness ==
    /\ DoneDistinct
    /\ \E p \in PathsToB, q \in PathsToB :
        /\ p[2] = MaxTime
        /\ p[1].edge[1] = stationA
        /\ q[2] = RouteChangePenalty
    /\ result.totalTravelTime = RouteChangePenalty
    /\ Len(result.steps) = 2

\* Number of places where two consecutive steps name different routes.
RouteChanges(steps) ==
    Cardinality({ i \in 1..Len(steps) - 1 :
        <<steps[i].lineId, steps[i].routeId>>
            # <<steps[i + 1].lineId, steps[i + 1].routeId>> })

\* C3: the travel times of the steps plus 5 for every change of route
\* between consecutive steps add up to the total travel time.
C3_StepsSumToTotal ==
    pc = "done" =>
        SumSeq([i \in DOMAIN result.steps |-> result.steps[i].travelTime])
        + RouteChangePenalty * RouteChanges(result.steps)
          = result.totalTravelTime

\* C4: for distinct stations with B reachable, the steps are a contiguous
\* walk from A to B and every step is an edge of the graph: at its start
\* station, to its end station, of that route of that line, with that time.
C4_StepsAreAWalk ==
    (DoneDistinct /\ Walks(stationA, stationB) # {}) =>
        /\ result.steps # <<>>
        /\ result.steps[1].startStationId = stationA
        /\ result.steps[Len(result.steps)].endStationId = stationB
        /\ \A i \in 1..Len(result.steps) - 1 :
            result.steps[i].endStationId = result.steps[i + 1].startStationId
        /\ \A i \in DOMAIN result.steps :
            \E r \in EdgeRefs :
                /\ r[1] = result.steps[i].startStationId
                /\ EdgeAt(r).nextStop = result.steps[i].endStationId
                /\ EdgeAt(r).route.line = result.steps[i].lineId
                /\ EdgeAt(r).route.id = result.steps[i].routeId
                /\ EdgeAt(r).travelTime = result.steps[i].travelTime

\* C4 witness: a route of two steps with a travel time above 0.
C4_Witness ==
    /\ DoneDistinct
    /\ Len(result.steps) = 2
    /\ result.steps[2].travelTime = MaxTime

\* C5: for every station A of the network the fastest route from A to A has
\* total 0 and the single step (A, A, no line, no route, 0).
C5_SameStationOneStep ==
    (pc = "done" /\ Known(stationA) /\ stationA = stationB) =>
        /\ result.totalTravelTime = 0
        /\ result.steps = << [startStationId |-> stationA,
                              endStationId |-> stationA,
                              lineId |-> "", routeId |-> "",
                              travelTime |-> 0] >>

\* C5 witness: the query was for a station that has passengers and an edge
\* with a travel time above 0.
C5_Witness ==
    /\ pc = "done"
    /\ Known(stationA)
    /\ stationA = stationB
    /\ Len(result.steps) = 1
    /\ stations_[stationA].passengerCount # 0
    /\ \E r \in EdgeRefs : r[1] = stationA /\ EdgeAt(r).travelTime = MaxTime

\* C6: when A or B is not a station, or B cannot be reached from A, the
\* route returned has no steps and total travel time 0.
C6_NoResultIsEmptyRoute ==
    (pc = "done"
        /\ \/ ~Known(stationA)
           \/ ~Known(stationB)
           \/ stationA # stationB /\ Walks(stationA, stationB) = {}) =>
        /\ result.steps = <<>>
        /\ result.totalTravelTime = 0

\* C6 witness: the search explored edges from A, with travel times above 0,
\* and none of them leads to B.
C6_Witness ==
    /\ DoneDistinct
    /\ Cardinality(DOMAIN distFromA) >= 2
    /\ \E ps \in DOMAIN distFromA : distFromA[ps] = MaxTime
    /\ PathsToB = {}
    /\ result.steps = <<>>

\* ---------------------------------------------------------------------
\* C11: the passenger count of every station of the network is the number of
\* In events recorded for it minus the number of Out events recorded for it,
\* whatever the order of the events and the events of the other stations
\* between them; the count may be negative.
C11_CountIsInsMinusOuts ==
    \A s \in DOMAIN stations_ :
        /\ ~GetPassengerCount(s).thrown
        /\ GetPassengerCount(s).value = events[s].nIn - events[s].nOut

\* One In and two Out events at a station, with an event of another station
\* among them: the count is -1.
C11_Witness ==
    \E s \in DOMAIN stations_, o \in DOMAIN stations_ :
        /\ s # o
        /\ events[s] = [nIn |-> 1, nOut |-> 2]
        /\ events[o].nIn + events[o].nOut > 0
        /\ ret = [op |-> "RecordPassengerEvent", ok |-> TRUE]
        /\ GetPassengerCount(s).value = -1

\* ---------------------------------------------------------------------
\* C12: RecordPassengerEvent for a station that is not in the network returns
\* false and leaves every passenger count (and the rest of the network) as it
\* was; GetPassengerCount for a station that is not in the network throws.
C12_UnknownStation ==
    /\ [](\A s \in StationIds \ DOMAIN stations_ : GetPassengerCount(s).thrown)
    /\ [][(ret'.op = "RecordPassengerEvent") =>
            \A s \in StationIds, t \in EventTypes :
              (RecordPassengerEvent(s, t) /\ ~Known(s)) =>
                /\ ~ret'.ok
                /\ stations_' = stations_
                /\ \A o \in DOMAIN stations_ :
                      GetPassengerCount(o)' = GetPassengerCount(o)
                /\ \A o \in StationIds \ DOMAIN stations_ :
                      GetPassengerCount(o)'.thrown]_vars

\* A rejected event while some station is unknown and the count of a known
\* station is not 0.
C12_Witness ==
    /\ ret = [op |-> "RecordPassengerEvent", ok |-> FALSE]
    /\ StationIds \ DOMAIN stations_ # {}
    /\ \E o \in DOMAIN stations_ : GetPassengerCount(o).value # 0

\* ---------------------------------------------------------------------
\* C13: AddStation(S) returns true exactly when no station of the network has
\* the id of S. When it returns true the network has gained one station, with
\* the name of S, passenger count 0 and no edges, and the other stations are
\* as they were. When it returns false the station that has the id keeps its
\* name, its passenger count and its edges, and nothing else changes.
C13_AddStation ==
    [][(ret'.op = "AddStation") =>
        \A id \in StationIds, name \in StationNames :
          AddStation(Station(id, name)) =>
            /\ ret'.ok <=> ~Known(id)
            /\ ret'.ok =>
                  /\ DOMAIN stations_' = DOMAIN stations_ \cup {id}
                  /\ stations_'[id] = [name |-> name, passengerCount |-> 0,
                                       edges |-> <<>>]
                  /\ \A o \in DOMAIN stations_ : stations_'[o] = stations_[o]
            /\ ~ret'.ok => stations_' = stations_
            /\ lines_' = lines_]_vars

\* A rejected AddStation while a station has passengers and an edge.
C13_Witness ==
    /\ ret = [op |-> "AddStation", ok |-> FALSE]
    /\ \E o \in DOMAIN stations_ :
          /\ stations_[o].passengerCount # 0
          /\ stations_[o].edges # <<>>
    /\ \E o \in DOMAIN stations_ : stations_[o].name = "Beta"

\* ---------------------------------------------------------------------
RouteIdsOf(line) == { line.routes[i].id : i \in DOMAIN line.routes }

\* The three failures of AddLine that the claim lists.
LineIdRegistered(line) == line.id \in DOMAIN lines_

NamesUnknownStop(line) ==
    \E i \in DOMAIN line.routes :
        \E j \in DOMAIN line.routes[i].stops : ~Known(line.routes[i].stops[j])

RepeatsRouteId(line) ==
    \E i \in DOMAIN line.routes, j \in DOMAIN line.routes :
        i # j /\ line.routes[i].id = line.routes[j].id

\* C14: AddLine(L) returns false when the id of L is registered, when a route
\* of L names a stop that is not a station, or when two routes of L have the
\* same id, and true otherwise. A rejected line leaves lines_ as it was, an
\* accepted one adds L with one route per route id of L, so that every
\* registered route is stored under its own line id and route id and no two
\* registered routes are the same object.
C14_AddLineResult ==
    [][(ret'.op = "AddLine") =>
        \A line \in StoreLineInputs :
          AddLine(line) =>
            /\ ret'.ok <=> ~(LineIdRegistered(line) \/ NamesUnknownStop(line)
                                \/ RepeatsRouteId(line))
            /\ ~ret'.ok => lines_' = lines_
            /\ ret'.ok =>
                  /\ DOMAIN lines_' = DOMAIN lines_ \cup {line.id}
                  /\ DOMAIN lines_'[line.id] = RouteIdsOf(line)
                  /\ \A l \in DOMAIN lines_ : lines_'[l] = lines_[l]
            /\ \A p \in RegisteredRoutes' :
                  /\ lines_'[p[1]][p[2]].line = p[1]
                  /\ lines_'[p[1]][p[2]].id = p[2]
                  /\ \A q \in RegisteredRoutes' :
                        lines_'[p[1]][p[2]].uid = lines_'[q[1]][q[2]].uid
                            => p = q]_vars

\* A rejected AddLine while one line is registered and an edge of a route of
\* no registered line is in the graph (an earlier AddLine failed at its
\* second route).
C14_Witness ==
    /\ ret = [op |-> "AddLine", ok |-> FALSE]
    /\ DOMAIN lines_ # {}
    /\ \E r \in EdgeRefs :
          \A p \in RegisteredRoutes :
              lines_[p[1]][p[2]].uid # EdgeAt(r).route.uid

\* ---------------------------------------------------------------------
\* A well-formed list of stops (transport-network.h, struct Route): at least
\* two stops and no stop twice.
WellFormedStops(stops) ==
    /\ Len(stops) >= 2
    /\ \A i \in DOMAIN stops, j \in DOMAIN stops : stops[i] = stops[j] => i = j

\* C15: every registered route has at least two stops and no stop twice.
C15_RegisteredRoutesWellFormed ==
    \A p \in RegisteredRoutes : WellFormedStops(GetRoute(p[1], p[2]).stops)

\* The edges of a station that belong to a route object.
EdgesOwnedBy(station, route) ==
    { i \in DOMAIN stations_[station].edges :
        stations_[station].edges[i].route.uid = route.uid }

\* C16: for every registered route R with well-formed stops, every stop of R
\* but the last has exactly one edge that belongs to R, and that edge leads
\* to the stop that follows on R; the last stop has no edge that belongs to R.
C16_OneEdgePerHop ==
    \A p \in RegisteredRoutes :
        LET R == GetRoute(p[1], p[2])
        IN WellFormedStops(R.stops) =>
            /\ \A i \in 1..(Len(R.stops) - 1) :
                  /\ Cardinality(EdgesOwnedBy(R.stops[i], R)) = 1
                  /\ \A e \in EdgesOwnedBy(R.stops[i], R) :
                        stations_[R.stops[i]].edges[e].nextStop = R.stops[i + 1]
            /\ EdgesOwnedBy(R.stops[Len(R.stops)], R) = {}

\* Two registered well-formed routes, one of three stops, that share stops.
C16_Witness ==
    /\ ret = [op |-> "AddLine", ok |-> TRUE]
    /\ Cardinality(RegisteredRoutes) = 2
    /\ \A p \in RegisteredRoutes : WellFormedStops(GetRoute(p[1], p[2]).stops)
    /\ \E p \in RegisteredRoutes : Len(GetRoute(p[1], p[2]).stops) = 3

\* ---------------------------------------------------------------------
\* The ids that routes take in the inputs.
RouteIds == { rs[i].id : <<rs, i>> \in
                UNION { { <<l, j>> : j \in DOMAIN l } : l \in StoreRouteLists } }

\* The registered routes of an id that have the station among their stops.
RoutesThrough(station, routeId) ==
    { p \in RegisteredRoutes :
        /\ p[2] = routeId
        /\ \E i \in DOMAIN GetRoute(p[1], p[2]).stops :
              GetRoute(p[1], p[2]).stops[i] = station }

\* C17: GetRoutesServingStation(S) lists a route id once for every registered
\* route of that id that has S among its stops, and no other id; it is empty
\* when S is not a station.
C17_RoutesServing ==
    \A S \in StationIds :
        LET routes == GetRoutesServingStation(S)
        IN /\ ~Known(S) => DOMAIN routes = {}
           /\ \A r \in RouteIds :
                 IF RoutesThrough(S, r) = {} THEN r \notin DOMAIN routes
                 ELSE /\ r \in DOMAIN routes
                      /\ routes[r] = Cardinality(RoutesThrough(S, r))

\* ---------------------------------------------------------------------
\* Where a station comes first among the stops, 0 when it is not a stop.
PosOf(stops, station) ==
    LET hits == { i \in DOMAIN stops : stops[i] = station }
    IN IF hits = {} THEN 0 ELSE CHOOSE i \in hits : \A j \in hits : i <= j

\* The travel time of the edge of route R for its hop from stop i to stop
\* i + 1.
HopTime(R, i) ==
    LET own == { e \in EdgesOwnedBy(R.stops[i], R) :
                   stations_[R.stops[i]].edges[e].nextStop = R.stops[i + 1] }
    IN stations_[R.stops[i]].edges[CHOOSE e \in own : TRUE].travelTime

\* C18: GetTravelTime(line, route, A, B) is the sum of the travel times of
\* the route's own edges over its hops from A to B when the route is
\* registered, A and B are stations and A comes strictly before B on it; it
\* is 0 when A = B, when B comes before A, when A or B is not a stop of the
\* route, and when the line, the route or a station is unknown.
C18_TravelTimeOnRoute ==
    \A l \in LineIds, r \in RouteIds, a \in StationIds, b \in StationIds :
        LET onRoute == /\ HasRoute(l, r) /\ Known(a) /\ Known(b) /\ a # b
                       /\ PosOf(GetRoute(l, r).stops, a) # 0
                       /\ PosOf(GetRoute(l, r).stops, a)
                            < PosOf(GetRoute(l, r).stops, b)
        IN GetTravelTimeOnRoute(l, r, a, b) =
            IF onRoute
            THEN LET R == GetRoute(l, r)
                 IN SumSeq([k \in 1..(PosOf(R.stops, b) - PosOf(R.stops, a)) |->
                                HopTime(R, PosOf(R.stops, a) + k - 1)])
            ELSE 0

\* ---------------------------------------------------------------------
\* C19: GetTravelTime(A, B) is 0 when A = B, when A or B is not a station and
\* when no edge joins A and B; otherwise it is the travel time of an edge that
\* joins A and B.
C19_TravelTimeOfPair ==
    \A a \in StationIds, b \in StationIds :
        IF a = b \/ ~Known(a) \/ ~Known(b) \/ EdgesJoining(a, b) = {}
        THEN GetTravelTime(a, b) = 0
        ELSE \E r \in EdgesJoining(a, b) :
                GetTravelTime(a, b) = EdgeAt(r).travelTime

\* ---------------------------------------------------------------------
\* The stations and the lines of the object are all valid for the network as
\* it is: FromJson gets through its first two loops.
ValidStationsAndLines(src) ==
    /\ LoadStations(src.stations, stations_).ok
    /\ LoadLines(src.lines, LoadStations(src.stations, stations_).nodes,
                 lines_).ok

\* C20: FromJson of an object with valid stations and lines and no
\* travel_times section throws nothing and returns false; all the stations and
\* lines of the object are in the network afterwards, every edge they create
\* has travel time 0, and the edges that were there keep their times.
C20_AbsentTravelTimesIsSoft ==
    [][(ret'.op = "FromJson") =>
        \A src \in JsonInputs :
          (FromJson(src) /\ "travel_times" \notin DOMAIN src
              /\ ValidStationsAndLines(src)) =>
            /\ ret'.thrown = "none"
            /\ ~ret'.ok
            /\ \A i \in DOMAIN src.stations : Known(src.stations[i].id)'
            /\ \A i \in DOMAIN src.lines :
                  /\ src.lines[i].id \in DOMAIN lines_'
                  /\ DOMAIN lines_'[src.lines[i].id] = RouteIdsOf(src.lines[i])
            /\ \A r \in EdgeRefs' :
                  IF r \in EdgeRefs THEN EdgeAt(r)' = EdgeAt(r)
                  ELSE EdgeAt(r)'.travelTime = 0]_vars

\* ---------------------------------------------------------------------
\* The entries of a travel_times section that name two stations of the
\* network that an edge joins.
ValidEntries(travelTimesJson) ==
    { i \in DOMAIN travelTimesJson :
        /\ Known(travelTimesJson[i].start_station_id)
        /\ Known(travelTimesJson[i].end_station_id)
        /\ EdgesJoining(travelTimesJson[i].start_station_id,
                        travelTimesJson[i].end_station_id) # {} }

\* C21: FromJson throws std::runtime_error when a station of the object is
\* already in the network or AddLine rejects a line of it. When the stations
\* and lines are valid and the travel_times section is there, it throws
\* nothing and returns false exactly when an entry names a station that is
\* not in the network or two stations that no edge joins; all the stations and
\* lines of the object are then in the network, and every valid entry,
\* before or after a bad one, has set the edges of its pair.
C21_FatalAndSoftFailure ==
    [][(ret'.op = "FromJson") =>
        \A src \in JsonInputs : (src = ret'.src) =>
           /\ FromJson(src)
           /\ ~ValidStationsAndLines(src) => ret'.thrown = "runtime_error"
           /\ (ValidStationsAndLines(src) /\ "travel_times" \in DOMAIN src) =>
                /\ ret'.thrown = "none"
                /\ ret'.ok <=>
                      ValidEntries(src.travel_times)' = DOMAIN src.travel_times
                /\ \A i \in DOMAIN src.stations : Known(src.stations[i].id)'
                /\ \A i \in DOMAIN src.lines :
                      /\ src.lines[i].id \in DOMAIN lines_'
                      /\ DOMAIN lines_'[src.lines[i].id]
                            = RouteIdsOf(src.lines[i])
                /\ \A i \in ValidEntries(src.travel_times)' :
                      \A r \in EdgesJoining(src.travel_times[i].start_station_id,
                                            src.travel_times[i].end_station_id)' :
                          EdgeAt(r)'.travelTime = src.travel_times[i].travel_time
          ]_vars

\* A load that returned false although one of its two entries was valid and
\* was applied to an edge.
C21_Witness ==
    /\ ret.op = "FromJson"
    /\ ret.thrown = "none"
    /\ ~ret.ok
    /\ Len(ret.src.travel_times) = 2
    /\ ValidEntries(ret.src.travel_times) # {}
    /\ \E r \in EdgeRefs : EdgeAt(r).travelTime = MaxTime

\* ------------------------------------------------------ GetQuietTravelRoute
\* GetQuietTravelRoute, GetFastestTravelRoutes and GetPathCrowding are
\* declared in transport-network.h and have no definition in the sources;
\* they are modelled after section 4.4.2 of the specification, on the answer
\* of the fastest-route search that has just ended (pc = "done").

\* maxSlowdownPc and minQuietnessPc, in hundredths, and maxNPaths.
PcValues == {0, 50, 100}
NPathsValues == {0, 1, 3}

\* The calls of the quiet-route model: lines that give two ways from A to B
\* (over C, and direct), travel times, passengers at C, and the search.
QuietLineInputs ==
    { [id |-> "L1", routes |-> <<Rt("R1", <<"A", "C", "B">>)>>],
      [id |-> "L2", routes |-> <<Rt("R1", <<"A", "B">>)>>] }

\* Travel times that leave room for a path within half of the best time.
QuietTimeValues == {0, MaxTime - 2, MaxTime}

NextQuiet ==
    \/ \E id \in StationIds : AddStation(Station(id, "Alpha"))
    \/ \E line \in QuietLineInputs : AddLine(line)
    \/ \E a \in StationIds, b \in StationIds, t \in QuietTimeValues :
            SetTravelTime(a, b, t)
    \/ \E type \in {"In", "Out"} : RecordPassengerEvent("C", type)
    \/ \E a \in {"A", "C"}, b \in {"A", "B"} : StartFastest(a, b)
    \/ DijkstraStep
    \/ Assemble
    \/ Return

SpecQuiet == Init /\ [][NextQuiet]_vars

\* The steps and the TravelRoute of a walk.
StepsOfWalk(w) ==
    [i \in DOMAIN w |->
        [startStationId |-> w[i][1],
         endStationId |-> EdgeAt(w[i]).nextStop,
         lineId |-> EdgeAt(w[i]).route.line,
         routeId |-> EdgeAt(w[i]).route.id,
         travelTime |-> EdgeAt(w[i]).travelTime]]

TravelRouteOfWalk(a, b, w) ==
    [startStationId |-> a, endStationId |-> b,
     totalTravelTime |-> WalkCost(w), steps |-> StepsOfWalk(w)]

\* Crowding of a route: the passenger counts above 0 of its interior
\* stations (origin and destination excluded).
Crowding(steps) ==
    SumSeq([i \in 1..(Len(steps) - 1) |->
        LET count == stations_[steps[i].endStationId].passengerCount
        IN IF count > 0 THEN count ELSE 0])

\* PathsWithin without the upper bound of the budget.
PathsWithinAnyCost(maxSlowdownPc) ==
    { w \in Walks(stationA, stationB) :
        /\ \A i \in DOMAIN w, j \in DOMAIN w : w[i] = w[j] => i = j
        /\ result.totalTravelTime <= WalkCost(w) }

\* The distinct paths from A to B within the slowdown budget:
\* best <= c <= best * (1 + maxSlowdownPc).
PathsWithin(maxSlowdownPc) ==
    { w \in Walks(stationA, stationB) :
        /\ \A i \in DOMAIN w, j \in DOMAIN w : w[i] = w[j] => i = j
        /\ result.totalTravelTime <= WalkCost(w)
        /\ 100 * WalkCost(w) <= result.totalTravelTime * (100 + maxSlowdownPc) }

\* The sets of paths an enumeration of at most maxNPaths paths may explore.
Explorable(maxSlowdownPc, maxNPaths) ==
    { E \in SUBSET PathsWithin(maxSlowdownPc) : Cardinality(E) <= maxNPaths }

\* The explored paths that are quiet enough:
\* crowding <= fastest_crowding * (1 - minQuietnessPc).
Qualifying(E, minQuietnessPc) ==
    { w \in E : 100 * Crowding(StepsOfWalk(w))
                    <= Crowding(result.steps) * (100 - minQuietnessPc) }

\* Qualifying with the test of the crowding left out.
SelectedAnyCrowding(E, minQuietnessPc) ==
    { w \in E : \A o \in E : WalkCost(w) <= WalkCost(o) }

\* The qualifying paths of minimum crowding, and among them those of the
\* lowest travel time.
Selected(E, minQuietnessPc) ==
    { w \in Qualifying(E, minQuietnessPc) :
        \A o \in Qualifying(E, minQuietnessPc) :
            \/ Crowding(StepsOfWalk(w)) < Crowding(StepsOfWalk(o))
            \/ /\ Crowding(StepsOfWalk(w)) = Crowding(StepsOfWalk(o))
               /\ WalkCost(w) <= WalkCost(o) }

\* The answers of the quiet-route query that has explored E.
QuietAnswersFor(E, minQuietnessPc) ==
    IF Selected(E, minQuietnessPc) = {} THEN {result}
    ELSE { TravelRouteOfWalk(stationA, stationB, w) :
             w \in Selected(E, minQuietnessPc) }

\* The fastest-route search found a path between two distinct stations.
FoundPath == DoneDistinct /\ result.steps # <<>>

\* GetQuietTravelRoute(stationA, stationB, maxSlowdownPc, minQuietnessPc,
\* maxNPaths): every answer it may give.
GetQuietTravelRoute(maxSlowdownPc, minQuietnessPc, maxNPaths) ==
    IF ~FoundPath THEN {result}
    ELSE UNION { QuietAnswersFor(E, minQuietnessPc) :
                    E \in Explorable(maxSlowdownPc, maxNPaths) }

\* ---------------------------------------------------------------------
\* C22 as stated: with maxSlowdownPc = 0 the quiet route is the fastest route
\* for every minQuietnessPc and maxNPaths, and for all parameters it is the
\* answer of the fastest-route search when A = B, when a station is unknown
\* and when B cannot be reached.
C22_ZeroSlowdownIsFastest ==
    pc = "done" =>
        /\ \A q \in PcValues, n \in NPathsValues :
              GetQuietTravelRoute(0, q, n) = {result}
        /\ ~FoundPath =>
              \A s \in PcValues, q \in PcValues, n \in NPathsValues :
                  GetQuietTravelRoute(s, q, n) = {result}

\* C22 amended: with maxSlowdownPc = 0 the quiet route has the total travel
\* time of the fastest route, and it is the fastest route itself or a route
\* of that same cost whose crowding is at most
\* fastest_crowding * (1 - minQuietnessPc); for all parameters it is the
\* answer of the fastest-route search when A = B, when a station is unknown
\* and when B cannot be reached.
C22_ZeroSlowdownSameCost ==
    pc = "done" =>
        /\ \A q \in PcValues, n \in NPathsValues :
              \A r \in GetQuietTravelRoute(0, q, n) :
                  /\ r.totalTravelTime = result.totalTravelTime
                  /\ r.startStationId = result.startStationId
                  /\ r.endStationId = result.endStationId
                  /\ \/ r = result
                     \/ 100 * Crowding(r.steps)
                            <= Crowding(result.steps) * (100 - q)
        /\ ~FoundPath =>
              \A s \in PcValues, q \in PcValues, n \in NPathsValues :
                  GetQuietTravelRoute(s, q, n) = {result}

\* The fastest route goes over a station with passengers, and with
\* maxSlowdownPc = 0 the quiet route is another route of the same cost.
C22_Witness ==
    /\ FoundPath
    /\ Crowding(result.steps) > 0
    /\ \E r \in GetQuietTravelRoute(0, 100, 3) :
          /\ r # result
          /\ r.totalTravelTime = result.totalTravelTime
          /\ Crowding(r.steps) = 0

\* ---------------------------------------------------------------------
\* C23: whatever set of paths within the budget is explored, the quiet route
\* is the fastest route or a route of cost c with
\* best <= c <= best * (1 + maxSlowdownPc) and crowding at most
\* fastest_crowding * (1 - minQuietnessPc); it is the fastest route when no
\* explored path qualifies, and otherwise no explored qualifying path has
\* less crowding.
C23_QuietRoute ==
    FoundPath =>
        \A s \in PcValues, q \in PcValues, n \in NPathsValues :
          \A E \in Explorable(s, n) :
            \A r \in QuietAnswersFor(E, q) :
              /\ \/ r = result
                 \/ /\ result.totalTravelTime <= r.totalTravelTime
                    /\ 100 * r.totalTravelTime
                          <= result.totalTravelTime * (100 + s)
                    /\ 100 * Crowding(r.steps)
                          <= Crowding(result.steps) * (100 - q)
              /\ Qualifying(E, q) = {} => r = result
              /\ \A o \in Qualifying(E, q) :
                    Crowding(r.steps) <= Crowding(StepsOfWalk(o))

\* The fastest route goes over a station with passengers, and a slower
\* route within half of its time, with no crowding, is the quiet route.
C23_Witness ==
    /\ FoundPath
    /\ Crowding(result.steps) > 0
    /\ \E r \in GetQuietTravelRoute(50, 50, 3) :
          /\ r.totalTravelTime > result.totalTravelTime
          /\ Crowding(r.steps) = 0
    /\ result \in GetQuietTravelRoute(50, 50, 0)

\* ---------------------------------------------------------------------
\* A step keeps every station, line, route and edge that there is: only
\* travel times and passenger counts may differ (stations, lines and edges
\* may be added).
KeepsStructure ==
    /\ DOMAIN stations_ \subseteq DOMAIN stations_'
    /\ \A l \in DOMAIN lines_ : l \in DOMAIN lines_' /\ lines_'[l] = lines_[l]
    /\ \A st \in DOMAIN stations_ :
          /\ stations_'[st].name = stations_[st].name
          /\ Len(stations_[st].edges) <= Len(stations_'[st].edges)
          /\ \A i \in DOMAIN stations_[st].edges :
                /\ stations_'[st].edges[i].route = stations_[st].edges[i].route
                /\ stations_'[st].edges[i].nextStop
                      = stations_[st].edges[i].nextStop

\* A step adds no station, line, route or edge.
AddsNothing ==
    /\ DOMAIN stations_' = DOMAIN stations_
    /\ lines_' = lines_
    /\ \A st \in DOMAIN stations_ :
          Len(stations_'[st].edges) = Len(stations_[st].edges)

\* C24: no step removes a station, a line, a route or an edge. SetTravelTime
\* adds none and changes nothing but the travel times of the edges that join
\* its two stations; RecordPassengerEvent adds none and changes nothing but
\* the passenger count of its station; the steps of the fastest-route query
\* change nothing of the network.
C24_OnlyTimesAndCountsChange ==
    [][/\ KeepsStructure
       /\ (ret'.op = "SetTravelTime") =>
            \A a \in StationIds, b \in StationIds, t \in QuietTimeValues :
              SetTravelTime(a, b, t) =>
                /\ AddsNothing
                /\ \A st \in DOMAIN stations_ :
                      stations_'[st].passengerCount
                          = stations_[st].passengerCount
                /\ \A r \in EdgeRefs \ EdgesJoining(a, b) :
                      EdgeAt(r)' = EdgeAt(r)
       /\ (ret'.op = "RecordPassengerEvent") =>
            \A s \in StationIds, type \in EventTypes :
              RecordPassengerEvent(s, type) =>
                /\ AddsNothing
                /\ \A st \in DOMAIN stations_ :
                      /\ stations_'[st].edges = stations_[st].edges
                      /\ st # s => stations_'[st] = stations_[st]
       /\ (pc # "idle" \/ pc' # "idle") =>
            /\ stations_' = stations_
            /\ lines_' = lines_
      ]_vars

\* SetTravelTime has set the edge of one pair while an edge of another pair
\* keeps another travel time and a station has passengers.
C24_Witness ==
    /\ ret = [op |-> "SetTravelTime", ok |-> TRUE]
    /\ \E r \in EdgeRefs, o \in EdgeRefs :
          /\ EdgeAt(r).travelTime = MaxTime
          /\ EdgeAt(o).travelTime = 0
    /\ \E st \in DOMAIN stations_ : stations_[st].passengerCount # 0

\* -------------------------------------------------- termination of a query

\* Lines whose routes close cycles: the two directions on one line, a route
\* from a station to itself, and a way back on another line.
CycleLineInputs ==
    { [id |-> "L1", routes |-> <<Rt("R1", <<"A", "B">>), Rt("R2", <<"B", "A">>)>>],
      [id |-> "L1", routes |-> <<Rt("R1", <<"A", "A">>)>>],
      [id |-> "L1", routes |-> <<Rt("R1", <<"A", "B">>)>>],
      [id |-> "L2", routes |-> <<Rt("R1", <<"B", "A">>)>>],
      [id |-> "L2", routes |-> <<Rt("R1", <<"A", "C">>)>>] }

NextCycles ==
    \/ \E id \in StationIds : AddStation(Station(id, "Alpha"))
    \/ \E line \in CycleLineInputs : AddLine(line)
    \/ \E a \in StationIds, b \in StationIds, t \in TimeValues :
            SetTravelTime(a, b, t)
    \/ \E a \in StationIds, b \in StationIds : StartFastest(a, b)
    \/ DijkstraStep
    \/ Assemble
    \/ Return

\* GetFastestTravelRoute has no yield point: once called, the iterations of
\* its loop and the code after the loop run whenever they can.
SpecCycles ==
    /\ Init
    /\ [][NextCycles]_vars
    /\ WF_vars(DijkstraStep)
    /\ WF_vars(Assemble)

\* s is on a cycle of edges of travel time 0.
ZeroCycleAt(s) ==
    \E r \in EdgeRefs, o \in EdgeRefs :
        /\ r[1] = s
        /\ EdgeAt(r).nextStop = o[1]
        /\ EdgeAt(o).nextStop = s
        /\ EdgeAt(r).travelTime = 0
        /\ EdgeAt(o).travelTime = 0

\* C25: a call of GetFastestTravelRoute that has entered its loop comes to
\* the end of it, the queue of the nodes to visit empty, and returns a
\* result, on networks with cycles and with edges of travel time 0 too.
C25_FastestTerminates ==
    (pc = "dijkstra") ~> (pc = "done" /\ nodesToVisit = {})

\* A search from a station on a cycle of travel time 0 has come to its end,
\* after it has gone round the cycle and come back to the start.
C25_Witness ==
    /\ pc = "done"
    /\ stationA # stationB
    /\ ZeroCycleAt(stationA)
    /\ \E ps \in DOMAIN distFromA : ps.node = stationA /\ ps.edge # NoEdge

\* ------------------------------------------------------------ timer claims

\* Every timer of this name constructed since the last ClearAll has been
\* stopped, by Stop() or by its destructor.
AllStopped(name) == MadeSince(name) \subseteq stopped

\* C26: GetResults(name) throws when no timer of that name has been
\* constructed since the last ClearAll or when one of them has not been
\* stopped yet, and returns results once all of them have been stopped.
C26_GetResultsThrows ==
    ~terminated =>
        \A name \in TimerNames :
            GetResults(name).thrown
                <=> (MadeSince(name) = {} \/ ~AllStopped(name))

\* The durations of the measurements of a name, all of them complete.
Durations(name) ==
    [i \in DOMAIN measurements[name] |->
        measurements[name][i].stop - measurements[name][i].start]

\* C27: Stop() or the destructor on a timer that has been stopped before
\* leaves every measurement and the results of every name as they were.
C27_StopIdempotent ==
    [][(ret'.op \in {"Stop", "~Timer"}) =>
        \A h \in DOMAIN instances :
            ((Stop(h) \/ DestroyTimer(h)) /\ instances[h].serial \in stopped)
                => /\ ~terminated'
                   /\ measurements' = measurements
                   /\ \A name \in TimerNames :
                         GetResults(name)' = GetResults(name)]_vars

\* C28: with two timers of one name alive, Stop() or the destructor of one
\* of them changes no measurement but the one its own constructor has made.
C28_StopsOwnMeasurement ==
    [][(ret'.op \in {"Stop", "~Timer"}) =>
        \A h \in DOMAIN instances, g \in DOMAIN instances :
            (/\ Stop(h) \/ DestroyTimer(h)
             /\ g # h
             /\ instances[g].name_ = instances[h].name_)
                => /\ DOMAIN measurements' = DOMAIN measurements
                   /\ \A name \in DOMAIN measurements :
                         /\ Len(measurements'[name]) = Len(measurements[name])
                         /\ \A i \in DOMAIN measurements[name] :
                               measurements[name][i].by # instances[h].serial
                                 => measurements'[name][i]
                                        = measurements[name][i]]_vars

\* C29: once every timer of a name is stopped, GetResults(name) returns, with
\* nSamples the number of timers constructed with that name since the last
\* ClearAll.
C29_SamplesAreTimersMade ==
    ~terminated =>
        \A name \in TimerNames :
            (MadeSince(name) # {} /\ AllStopped(name))
                => /\ ~GetResults(name).thrown
                   /\ GetResults(name).results.nSamples
                        = Cardinality(MadeSince(name))

\* Two timers of one name have been made and stopped after a ClearAll, one
\* before it, and the results of the name have been read.
C29_Witness ==
    /\ ~terminated
    /\ ret.op = "GetResults"
    /\ ret.ok
    /\ ret.name = "x"
    /\ ret.results.nSamples = 2
    /\ Cardinality(MadeSince("x")) = 2
    /\ \E i \in DOMAIN made : made[i].name = "x" /\ made[i].cleared
    /\ GetResults("x") = [thrown |-> FALSE, results |-> ret.results]

\* C30: the results of a name with measurements, all complete, have
\* best <= avg <= worst, avg the sum of the durations divided by their
\* number, the remainder dropped; with one measurement the three are equal.
C30_BestAvgWorst ==
    \A name \in TimerNames :
        LET r == GetResults(name)
        IN (~r.thrown /\ r.results.nSamples >= 1)
            => /\ r.results.best <= r.results.avg
               /\ r.results.avg <= r.results.worst
               /\ r.results.avg
                    = SumSeq(Durations(name)) \div Len(measurements[name])
               /\ \A i \in DOMAIN measurements[name] :
                     /\ r.results.best <= Durations(name)[i]
                     /\ Durations(name)[i] <= r.results.worst
               /\ (r.results.nSamples = 1)
                    => /\ r.results.best = r.results.avg
                       /\ r.results.avg = r.results.worst

\* The results of two measurements of different durations have been read,
\* their mean not a whole number.
C30_Witness ==
    /\ ret.op = "GetResults"
    /\ ret.ok
    /\ ret.results.nSamples = 2
    /\ ret.results.best < ret.results.worst
    /\ 2 * ret.results.avg < ret.results.best + ret.results.worst
    /\ GetResults(ret.name) = [thrown |-> FALSE, results |-> ret.results]

\* ------------------------------------------------ more claims on the search

\* Station a comes strictly before station b among the stops.
StrictlyBefore(stops, a, b) ==
    /\ PosOf(stops, a) # 0
    /\ PosOf(stops, a) < PosOf(stops, b)

\* The steps of a ride on route R of line l from its stop at position i to
\* its stop at position j.
RideSteps(l, R, i, j) ==
    [k \in 1..(j - i) |->
        [startStationId |-> R.stops[i + k - 1],
         endStationId |-> R.stops[i + k],
         lineId |-> l,
         routeId |-> R.id,
         travelTime |-> HopTime(R, i + k - 1)]]

\* C31: whenever A is strictly before B on a registered route R of line L,
\* the total of the fastest route from A to B is at most
\* GetTravelTime(L, R, A, B); when R is the only registered route, the total
\* is equal to it and the steps are the hops of R from A to B, one each.
C31_NoPenaltyAtOrigin ==
    DoneDistinct =>
        \A p \in RegisteredRoutes :
            LET R == GetRoute(p[1], p[2])
            IN StrictlyBefore(R.stops, stationA, stationB) =>
                /\ result.totalTravelTime
                     <= GetTravelTimeOnRoute(p[1], p[2], stationA, stationB)
                /\ (RegisteredRoutes = {p}) =>
                     /\ result.totalTravelTime
                          = GetTravelTimeOnRoute(p[1], p[2], stationA, stationB)
                     /\ result.steps
                          = RideSteps(p[1], R, PosOf(R.stops, stationA),
                                      PosOf(R.stops, stationB))

\* Four stations and lines of well-formed routes that close loops: a route
\* out over C to D with a route back over C on to B, and the two directions
\* between A and B with a branch to C.
LoopStationIds == {"A", "B", "C", "D"}

LoopLineInputs ==
    { [id |-> "L1", routes |-> <<Rt("R1", <<"A", "C", "D">>),
                                 Rt("R2", <<"D", "C", "B">>)>>],
      [id |-> "L1", routes |-> <<Rt("R1", <<"A", "B">>),
                                 Rt("R2", <<"B", "A", "C">>)>>],
      [id |-> "L2", routes |-> <<Rt("R1", <<"C", "A">>)>>] }

NextLoops ==
    \/ \E id \in LoopStationIds : AddStation(Station(id, "Alpha"))
    \/ \E line \in LoopLineInputs : AddLine(line)
    \/ \E a \in {"A", "C"}, b \in {"B", "C", "D"}, t \in TimeValues :
            SetTravelTime(a, b, t)
    \/ \E a \in {"A", "B"}, b \in {"B", "C"} : StartFastest(a, b)
    \/ DijkstraStep
    \/ Assemble
    \/ Return

SpecLoops == Init /\ [][NextLoops]_vars

\* The stations a TravelRoute passes, from the start of its first step on.
StationsOf(steps) ==
    [i \in 1..(Len(steps) + 1) |->
        IF i = 1 THEN steps[1].startStationId ELSE steps[i - 1].endStationId]

\* C32: with every registered route well-formed, the route returned for two
\* distinct stations passes no station twice: A is only where the first
\* step starts, B only where the last step ends, no station between them
\* comes twice.
C32_NoStationTwice ==
    (/\ DoneDistinct
     /\ \A p \in RegisteredRoutes : WellFormedStops(GetRoute(p[1], p[2]).stops)
     /\ result.steps # <<>>)
        => LET seq == StationsOf(result.steps)
           IN /\ seq[1] = stationA
              /\ seq[Len(seq)] = stationB
              /\ \A i \in DOMAIN seq, j \in DOMAIN seq :
                    seq[i] = seq[j] => i = j

\* The search from A to B went out to D and came back to C at the distance
\* of the change of route at C, all travel times 0, and the route returned
\* changes at C.
C32_Witness ==
    /\ DoneDistinct
    /\ stationA = "A"
    /\ stationB = "B"
    /\ \A r \in EdgeRefs : EdgeAt(r).travelTime = 0
    /\ \E ps \in DOMAIN distFromA :
          /\ ps.node = "C"
          /\ ps.edge # NoEdge
          /\ ps.edge[1] = "D"
          /\ distFromA[ps] = RouteChangePenalty
    /\ result.totalTravelTime = RouteChangePenalty
    /\ Len(result.steps) = 2

\* C33: for stops A before B before C of a registered route with well-formed
\* stops, GetTravelTime(line, route, A, C) is GetTravelTime(line, route, A, B)
\* plus GetTravelTime(line, route, B, C), whatever SetTravelTime has set.
C33_TravelTimeOnRouteAdds ==
    \A p \in RegisteredRoutes :
        LET stops == GetRoute(p[1], p[2]).stops
        IN WellFormedStops(stops) =>
            \A i \in DOMAIN stops, j \in DOMAIN stops, k \in DOMAIN stops :
                (i < j /\ j < k) =>
                    GetTravelTimeOnRoute(p[1], p[2], stops[i], stops[k])
                      = GetTravelTimeOnRoute(p[1], p[2], stops[i], stops[j])
                        + GetTravelTimeOnRoute(p[1], p[2], stops[j], stops[k])

\* SetTravelTime has set the two hops of a registered route of three stops,
\* one hop after the other, and the time over both is the sum.
C33_Witness ==
    /\ ret = [op |-> "SetTravelTime", ok |-> TRUE]
    /\ \E p \in RegisteredRoutes :
          /\ GetRoute(p[1], p[2]).stops = <<"A", "C", "B">>
          /\ GetTravelTimeOnRoute(p[1], p[2], "A", "C") = MaxTime
          /\ GetTravelTimeOnRoute(p[1], p[2], "C", "B") = MaxTime
          /\ GetTravelTimeOnRoute(p[1], p[2], "A", "B") = MaxTime + MaxTime

\* C34: Stop() or the destructor of a timer constructed before a ClearAll
\* returns, the program running on, and changes no measurement made since
\* that ClearAll.
C34_ClearAllWhileAlive ==
    [][(ret'.op \in {"Stop", "~Timer"}) =>
        \A h \in DOMAIN instances :
            ((Stop(h) \/ DestroyTimer(h)) /\ made[instances[h].serial].cleared)
                => /\ ~terminated'
                   /\ DOMAIN measurements' = DOMAIN measurements
                   /\ \A name \in DOMAIN measurements :
                         /\ Len(measurements'[name]) = Len(measurements[name])
                         /\ \A i \in DOMAIN measurements[name] :
                               ~made[measurements[name][i].by].cleared
                                 => measurements'[name][i]
                                        = measurements[name][i]]_vars

\* ------------------------------------------------ mock client claims

\* The callbacks of these names that the step has invoked.
Invoked(names) ==
    { i \in DOMAIN ret'.invoked : ret'.invoked[i].cb \in names }

\* The step runs a handler of this kind.
Runs(kind) == ret'.op = "RunHandler" /\ Head(strand).h = kind /\ RunHandler

\* The client is not connected and no Close has closed it: no Connect has set
\* connected_, because connectEc is set or because none has run.
NotConnected == ~connected_ /\ ~closed_

C36_CloseIsFinal ==
    [][(closed_ /\ ret'.op = "RunHandler" /\ RunHandler)
            => Invoked({"onMessage", "onDisconnect"}) = {}]_vars

\* The frame has the login and the passcode headers, with the user name and
\* the password of the server.
GoodCredentials(frame) ==
    /\ "login" \in DOMAIN frame.headers
    /\ "passcode" \in DOMAIN frame.headers
    /\ frame.headers["login"] = username
    /\ frame.headers["passcode"] = password

\* C37: for a CONNECT or STOMP frame with the right login and passcode the
\* server queues one CONNECTED frame and does not trigger a disconnection;
\* with a header missing or a value wrong it queues an ERROR frame and
\* triggers a disconnection; for a text that is no frame it triggers a
\* disconnection and queues nothing.
C37_ConnectAnswer ==
    [][(Runs("send") /\ Head(strand).onSend) =>
        LET msg == Head(strand).message
        IN /\ (msg.command \in {"CONNECT", "STOMP"} /\ GoodCredentials(msg))
                => /\ Len(pushed') = Len(pushed) + 1
                   /\ messageQueue' = Append(messageQueue, pushed'[Len(pushed')])
                   /\ pushed'[Len(pushed')].command = "CONNECTED"
                   /\ triggerDisconnection' = triggerDisconnection
           /\ (msg.command \in {"CONNECT", "STOMP"} /\ ~GoodCredentials(msg))
                => /\ Len(pushed') = Len(pushed) + 1
                   /\ messageQueue' = Append(messageQueue, pushed'[Len(pushed')])
                   /\ pushed'[Len(pushed')].command = "ERROR"
                   /\ triggerDisconnection'
           /\ (msg = NotAFrame)
                => /\ pushed' = pushed
                   /\ messageQueue' = messageQueue
                   /\ triggerDisconnection'
      ]_vars

\* The server has answered a CONNECT frame with a wrong passcode.
C37_Witness ==
    /\ ret.op = "RunHandler"
    /\ ret.handler.h = "send"
    /\ ret.handler.message.command = "CONNECT"
    /\ "passcode" \in DOMAIN ret.handler.message.headers
    /\ ret.handler.message.headers["passcode"] # password
    /\ triggerDisconnection
    /\ Len(pushed) = 1
    /\ pushed[1].command = "ERROR"

\* The frames a SUBSCRIBE frame for the endpoint with an id is answered with.
SubscribeAnswer(msg) ==
    (IF "receipt" \in DOMAIN msg.headers /\ msg.headers["receipt"] # ""
     THEN << StompFrame("RECEIPT",
                        ("receipt-id" :> msg.headers["receipt"]), "") >>
     ELSE <<>>)
    \o [i \in DOMAIN subscriptionMessages |->
            MakeMessageFrame(endpoint, msg.headers["id"],
                             subscriptionMessages[i])]

\* C38: for a SUBSCRIBE frame for the endpoint with an id that is not empty
\* the server queues the RECEIPT frame, if a receipt was asked for, and then
\* one MESSAGE frame for every subscription message, in their order; for a
\* SUBSCRIBE frame for another destination it queues an ERROR frame and
\* triggers a disconnection. The client hands the queued frames to onMessage
\* one by one, oldest first.
C38_SubscribeAnswer ==
    /\ [](delivered \o messageQueue = pushed)
    /\ [][/\ (ret'.op = "RunHandler" /\ RunHandler)
                => \/ delivered' = delivered
                   \/ /\ messageQueue # <<>>
                      /\ delivered' = Append(delivered, Head(messageQueue))
                      /\ Invoked({"onMessage"}) = {1}
                      /\ ret'.invoked[1].message = Head(messageQueue)
          /\ (Runs("send") /\ Head(strand).onSend
                /\ Head(strand).message.command = "SUBSCRIBE") =>
                LET msg == Head(strand).message
                    dest == IF "destination" \in DOMAIN msg.headers
                            THEN msg.headers["destination"] ELSE ""
                    id == IF "id" \in DOMAIN msg.headers
                          THEN msg.headers["id"] ELSE ""
                IN /\ (dest = endpoint /\ id # "")
                        => /\ pushed' = pushed \o SubscribeAnswer(msg)
                           /\ messageQueue'
                                = messageQueue \o SubscribeAnswer(msg)
                           /\ triggerDisconnection' = triggerDisconnection
                   /\ (dest # endpoint)
                        => /\ Len(pushed') = Len(pushed) + 1
                           /\ pushed'[Len(pushed')].command = "ERROR"
                           /\ messageQueue'
                                = Append(messageQueue, pushed'[Len(pushed')])
                           /\ triggerDisconnection'
         ]_vars

\* The receipt and the two subscription messages have been handed to
\* onMessage, in this order.
C38_Witness ==
    /\ Len(delivered) = 3
    /\ delivered[1].command = "RECEIPT"
    /\ delivered[2].body = "m1"
    /\ delivered[3].body = "m2"
    /\ messageQueue = <<>>
    /\ ret.op = "RunHandler"
    /\ ret.invoked = << [cb |-> "onMessage", message |-> delivered[3]] >>

====
